---- MODULE Spec2Model ----
(***************************************************************************)
(* Model of the linux-reality-check measurement framework: the metric     *)
(* record (metrics.c), the hardware-counter group (perf_counters.c) and   *)
(* the scenario drivers that bracket a workload kernel with                *)
(* metrics_init / metrics_finish and emit one CSV record per iteration.   *)
(*                                                                         *)
(* Each component has its own variables and its own specification; the    *)
(* variables of the other components stay at their idle values.           *)
(***************************************************************************)
EXTENDS Integers, Naturals, Sequences, FiniteSets, TLC

VARIABLES
    \* ---- metric record harness (metrics.c under a scenario's run loop) ----
    mpc,        \* position of the run loop: "idle","begun","ran","finished","emitted","exited"
    mrun,       \* loop variable run
    clk,        \* the monotonic-raw clock
    kern,       \* the kernel's per-process counters behind /proc/self/{status,stat}
    mcpu,       \* the CPU the measuring thread is on (what sched_getcpu reports)
    m,          \* workload_metrics_t
    bFail,      \* per counter: the read inside metrics_init failed
    eFail,      \* per counter: the read inside metrics_finish failed
    beginClk,   \* clock value when metrics_init ran
    endClk,     \* clock value when metrics_finish ran
    clockFail,  \* a clock_gettime of this iteration failed
    mlines,     \* record lines written so far
    mexit       \* exit status of the scenario (-1 while running)

metricsVars == <<mpc, mrun, clk, kern, mcpu, m, bFail, eFail, beginClk, endClk,
                 clockFail, mlines, mexit>>

VARIABLES
    \* ---- pinned.c ----
    ppc,        \* position of main: "start","boundary","spinning","exited","killed"
    pgroup,     \* which of the three run loops: 0 unpinned, 1 cpu0, 2 cpu1
    prun,       \* loop variable run
    paff,       \* affinity mask of the process
    pcpu,       \* CPU the process is on
    pstart,     \* metrics.start_cpu of the record being measured
    pbuf,       \* stdio buffer of out: chunks printed but not yet written
    pfile,      \* what has been written to ../data/pinned.csv
    pout,       \* the FILE out: "none", "open" or "closed" (by fclose)
    pemit,      \* records printed by metrics_print_csv so far
    ppins,      \* pin_to_cpu calls main has made so far
    psig,       \* a user interrupt (SIGINT) has been delivered
    pexit       \* exit status (-1 while running)

pinnedVars == <<ppc, pgroup, prun, paff, pcpu, pstart, pbuf, pfile, pout,
                pemit, ppins, psig, pexit>>

VARIABLES
    \* ---- cache_analysis.c with perf_counters.c ----
    cpc,        \* position of main: "start","cond","run","measuring","exited"
    ccond,      \* loop variable i over buffer_sizes
    crun,       \* loop variable run
    cfd,        \* perf_counters_t: the six fd_* fields
    cavail,     \* what perf_counters_init returned (0 or -1; 1 before the call)
    clog,       \* per event: the operations performed on its descriptor
    cbuffer,    \* the condition's buffer: "none", "allocated" or "freed"
    cpinok,     \* pin_to_cpu(0) succeeded
    cout,       \* text printed to out, as tokens: column names, "," and "\n"
    crecords,   \* iterations that printed a record
    cfile,      \* the FILE out: "none", "open" or "closed"
    cexit       \* exit status (-1 while running)

cacheVars == <<cpc, ccond, crun, cfd, cavail, clog, cbuffer, cpinok, cout,
               crecords, cfile, cexit>>

VARIABLES
    \* ---- numa_locality.c with memory_random.c ----
    npc,        \* position of main: "start","alloc","run","measuring","chased","exited"
    nphase,     \* "local" or "remote"
    nrun,       \* loop variable run
    nnodes,     \* what numa_get_node_count() reports
    nheld,      \* resources main holds: "out", "local_buffer", "remote_buffer", "indices"
    nregion,    \* between metrics_init and the matching metrics_finish
    nheapcalls, \* malloc/free calls made while nregion
    npinok,     \* pin_to_cpu(cpu0) succeeded
    nrecords,   \* records printed
    nexit       \* exit status (-1 while running)

numaVars == <<npc, nphase, nrun, nnodes, nheld, nregion, nheapcalls, npinok,
              nrecords, nexit>>

VARIABLES
    \* ---- realistic_patterns.c with mixed_workload.c ----
    rpc,        \* position of main: "start","top","measuring","exited","crashed"
    rcond,      \* which of the five pattern loops
    rrun,       \* loop variable run
    rbuffer,    \* work.buffer: "unset", "valid", "null" or "freed"
    rindices,   \* work.indices: "unset", "valid", "null" or "freed"
    rinit,      \* what mixed_workload_init returned for this iteration
    rbadrun,    \* kernels run on a workload whose init failed
    rbadrec,    \* records printed for a workload whose init failed
    rrecords,   \* records printed
    rfile,      \* the FILE out
    rexit       \* exit status (-1 while running)

realVars == <<rpc, rcond, rrun, rbuffer, rindices, rinit, rbadrun, rbadrec,
              rrecords, rfile, rexit>>

VARIABLES
    lvpc,       \* nice_levels: position in main
    lvi,        \* index i into nice_levels
    lvrun,      \* run counter of the inner loop
    lvnice,     \* the process's nice value as the kernel holds it
    lvtried,    \* nice values handed to setpriority, in call order
    lvfailed,   \* levels whose setpriority call failed
    lvwarned,   \* levels for which "Warning: Cannot set nice" was printed
    lvrecords,  \* records written to nice_levels.csv
    lvexit      \* exit status of main, -1 while running

niceVars == <<lvpc, lvi, lvrun, lvnice, lvtried, lvfailed, lvwarned,
              lvrecords, lvexit>>

VARIABLES
    qpc,        \* process creation benchmark: position in run_experiment
    qvariant,   \* index of the loop: fork, vfork, clone_vm, posix_spawn
    qi,         \* iteration i of the current loop
    qrun,       \* the record counter run
    qstack,     \* test_clone_vm's child stack is allocated
    qchild,     \* a child created by this iteration has not been reaped
    qattempts,  \* iterations begun so far, all loops together
    qrecords,   \* records written to the CSV
    qwaits      \* waitpid calls made so far

procVars == <<qpc, qvariant, qi, qrun, qstack, qchild, qattempts, qrecords,
              qwaits>>

VARIABLES
    asys,       \* NUMA API: indices N for which /sys/.../nodeN exists
    acached,    \* static int cached_node_count
    aprobes,    \* how many times the node directories were enumerated
    aprobed,    \* the directories as they were at the first enumeration
    aseen,      \* values numa_get_node_count has returned to its callers
    alive,      \* live pointers: how each was obtained ("none" when free)
    areleased,  \* releases done: how the pointer was obtained, how released
    acalls      \* API calls made so far

apiVars == <<asys, acached, aprobes, aprobed, aseen, alive, areleased,
             acalls>>

VARIABLES
    ffn,        \* library kernels: the function called last
    fin,        \* its arguments
    fout        \* what it returned and which elements it touched

fnVars == <<ffn, fin, fout>>

VARIABLES
    lkpc,       \* lock contention: position of the main thread
    lkvariant,  \* the worker function under test
    lkT,        \* work->thread_count
    lkK,        \* work->iterations_per_thread
    lkpin,      \* run_lock_test's pin_threads argument
    lkcreated,  \* threads created so far
    lkpinned,   \* threads whose affinity run_lock_test has set
    lkjoined,   \* threads joined so far
    lktpc,      \* each worker's position
    lkti,       \* each worker's loop counter i
    lktmp,      \* each worker's register holding shared_counter
    lkowner,    \* thread holding the spinlock / mutex, 0 when free
    lkshared,   \* work->shared_counter
    lkatomic,   \* work->atomic_counter
    lkearly     \* workers that ran an iteration before their affinity was set

lockVars == <<lkpc, lkvariant, lkT, lkK, lkpin, lkcreated, lkpinned,
              lkjoined, lktpc, lkti, lktmp, lkowner, lkshared, lkatomic,
              lkearly>>

VARIABLES
    rwpc,       \* rwlock_scaling: position of the main thread
    rwrun,      \* *run_number
    rwT,        \* num_threads of the current test
    rwpct,      \* write_pct of the current test
    rwcreated,  \* threads created so far in this test
    rwjoined,   \* threads joined so far in this test
    rwtpc,      \* each worker's position
    rwti,       \* each worker's loop counter i
    rwkind,     \* the lock each worker asked for in its current operation
    rwtmp,      \* each worker's register holding *shared_data
    rwwriter,   \* thread holding the write lock, 0 when none
    rwreaders,  \* threads holding the read lock
    rwshared,   \* shared_data
    rwwrites,   \* write operations performed in this test, all threads
    rwlive      \* the rwlock is initialised and not yet destroyed

rwVars == <<rwpc, rwrun, rwT, rwpct, rwcreated, rwjoined, rwtpc, rwti,
            rwkind, rwtmp, rwwriter, rwreaders, rwshared, rwwrites, rwlive>>

VARIABLES
    \* ---- mixed_workload.c ----
    xpc,        \* "new","ready","phased","bursty","failed","crashed"
    xw,         \* the mixed_workload_t
    xalloc,     \* elements the index array was allocated for
    xentry,     \* the struct as the running (or last) call found it
    xfn,        \* the running (or last) call: "none","phased","bursty"
    xiter,      \* argument iterations
    xphases,    \* argument phases
    xk,         \* loop variable: phase, or i
    xoob        \* indices was read past its allocation

mixedVars == <<xpc, xw, xalloc, xentry, xfn, xiter, xphases, xk, xoob>>

vars == <<metricsVars, pinnedVars, cacheVars, numaVars, realVars, niceVars,
          procVars, apiVars, fnVars, lockVars, rwVars, mixedVars>>

notMetrics == <<pinnedVars, cacheVars, numaVars, realVars, niceVars,
                procVars, apiVars, fnVars, lockVars, rwVars, mixedVars>>
notPinned == <<metricsVars, cacheVars, numaVars, realVars, niceVars,
               procVars, apiVars, fnVars, lockVars, rwVars, mixedVars>>
notCache == <<metricsVars, pinnedVars, numaVars, realVars, niceVars,
              procVars, apiVars, fnVars, lockVars, rwVars, mixedVars>>
notNuma == <<metricsVars, pinnedVars, cacheVars, realVars, niceVars,
             procVars, apiVars, fnVars, lockVars, rwVars, mixedVars>>
notReal == <<metricsVars, pinnedVars, cacheVars, numaVars, niceVars,
             procVars, apiVars, fnVars, lockVars, rwVars, mixedVars>>
notNice == <<metricsVars, pinnedVars, cacheVars, numaVars, realVars,
             procVars, apiVars, fnVars, lockVars, rwVars, mixedVars>>
notProc == <<metricsVars, pinnedVars, cacheVars, numaVars, realVars,
             niceVars, apiVars, fnVars, lockVars, rwVars, mixedVars>>
notApi == <<metricsVars, pinnedVars, cacheVars, numaVars, realVars,
            niceVars, procVars, fnVars, lockVars, rwVars, mixedVars>>
notFn == <<metricsVars, pinnedVars, cacheVars, numaVars, realVars,
           niceVars, procVars, apiVars, lockVars, rwVars, mixedVars>>
notLock == <<metricsVars, pinnedVars, cacheVars, numaVars, realVars,
             niceVars, procVars, apiVars, fnVars, rwVars, mixedVars>>
notRw == <<metricsVars, pinnedVars, cacheVars, numaVars, realVars,
           niceVars, procVars, apiVars, fnVars, lockVars, mixedVars>>
notMixed == <<metricsVars, pinnedVars, cacheVars, numaVars, realVars,
              niceVars, procVars, apiVars, fnVars, lockVars, rwVars>>

----------------------------------------------------------------------------
(* Bounds *)

\* uint64_t arithmetic wraps modulo 2^64; the model keeps the wrap-around
\* at a reduced width.
U64Mod == 16
\* runs per condition in the harness (RUNS in the scenarios)
MaxRuns == 2
\* values an uninitialised uint64_t / struct timespec may hold
MaxGarbage == 1

GarbageVals == 0..MaxGarbage

Sub64(a, b) == (a - b + U64Mod) % U64Mod

----------------------------------------------------------------------------
(* metrics.c *)

Counters == {"voluntary_ctxt_switches", "nonvoluntary_ctxt_switches",
             "minor_page_faults", "major_page_faults"}

\* memset(m, 0, sizeof(workload_metrics_t))
ZeroMetrics ==
    [timestamp_ns |-> 0, runtime_ns |-> 0,
     voluntary_ctxt_switches |-> 0, nonvoluntary_ctxt_switches |-> 0,
     minor_page_faults |-> 0, major_page_faults |-> 0,
     start_cpu |-> 0, end_cpu |-> 0]

\* One token of the /proc/self/stat line: a decimal number or other text.
Num(n) == [k |-> "num", v |-> n]
Txt == [k |-> "txt", v |-> 0]

\* strtoul(p, ..., 10) on one token: the number, or 0 when no digits.
Strtoul(tok) == IF tok.k = "num" THEN tok.v ELSE 0

\* The positional record of /proc/self/stat up to field 12:
\* pid (comm) state ppid pgrp session tty_nr tpgid flags minflt cminflt majflt
StatLine(k) ==
    <<Num(1), Txt, Txt, Num(1), Num(1), Num(1), Num(0), Num(1), Num(0),
      Num(k["minor_page_faults"]), Num(0), Num(k["major_page_faults"])>>

\* What a read of /proc/self/stat can deliver: no file, no line, or the
\* line cut after n fields.
StatReads ==
    {[open |-> FALSE, gets |-> FALSE, nfields |-> 0],
     [open |-> TRUE, gets |-> FALSE, nfields |-> 0]}
    \cup {[open |-> TRUE, gets |-> TRUE, nfields |-> n] : n \in {9, 10, 12}}

\* What a read of /proc/self/status can deliver: no file, or the file with
\* each of the two labelled lines present or not.
StatusReads ==
    {[open |-> FALSE, volLine |-> FALSE, nonvolLine |-> FALSE]}
    \cup {[open |-> TRUE, volLine |-> v, nonvolLine |-> n] : v, n \in BOOLEAN}

\* read_ctxt_switches(&voluntary, &nonvoluntary): prior holds what the two
\* out-parameters contained before the call.
read_ctxt_switches(f, k, prior) ==
    IF ~f.open
    THEN [vol |-> 0, nonvol |-> 0]
    ELSE [vol |-> IF f.volLine THEN k["voluntary_ctxt_switches"] ELSE prior.vol,
          nonvol |-> IF f.nonvolLine THEN k["nonvoluntary_ctxt_switches"]
                     ELSE prior.nonvol]

\* The parse of one /proc/self/stat line, tokens being what lies between
\* single spaces: skip 9 tokens, strtoul the tenth, skip one, strtoul the next.
ParseStatLine(line) ==
    LET \* skip 9 space-separated tokens; *p is then the start of the
        \* tenth token, if any
        has10 == Len(line) >= 10
        \* strtoul moves p past the tenth token only when it is a
        \* number; "skip field 11" then skips the next token, or else
        \* the rest of the tenth
        at == IF has10 /\ line[10].k = "num" THEN 12 ELSE 11
    IN  IF has10
        THEN [minor |-> Strtoul(line[10]),
              major |-> IF Len(line) >= at THEN Strtoul(line[at]) ELSE 0]
        ELSE [minor |-> 0, major |-> 0]

\* read_page_faults(&minor, &major)
read_page_faults(f, k) ==
    IF ~f.open \/ ~f.gets
    THEN [minor |-> 0, major |-> 0]
    ELSE ParseStatLine(SubSeq(StatLine(k), 1, f.nfields))

\* Which counters a pair of pseudo-file reads failed to deliver.
FailedReads(fs, fp) ==
    [c \in Counters |->
        CASE c = "voluntary_ctxt_switches" -> ~fs.open \/ ~fs.volLine
          [] c = "nonvoluntary_ctxt_switches" -> ~fs.open \/ ~fs.nonvolLine
          [] c = "minor_page_faults" -> ~fp.open \/ ~fp.gets \/ fp.nfields < 10
          [] c = "major_page_faults" -> ~fp.open \/ ~fp.gets \/ fp.nfields < 12]

NoFail == [c \in Counters |-> FALSE]

\* get_timestamp_ns(): the return value of clock_gettime is not looked at,
\* so after a failed call the result is computed from an unset timespec.
get_timestamp_ns(ok, garbage) == IF ok THEN clk ELSE garbage

\* metrics_init(m)
metrics_init(ts, fs, fp, cpu) ==
    LET cs == read_ctxt_switches(fs, kern, [vol |-> 0, nonvol |-> 0])
        pf == read_page_faults(fp, kern)
    IN  [ZeroMetrics EXCEPT
            !.timestamp_ns = ts,
            !.voluntary_ctxt_switches = cs.vol,
            !.nonvoluntary_ctxt_switches = cs.nonvol,
            !.minor_page_faults = pf.minor,
            !.major_page_faults = pf.major,
            !.start_cpu = cpu]

\* metrics_finish(m): uninit holds what the locals vol_ctxt and nonvol_ctxt
\* contained before read_ctxt_switches was called on them.
metrics_finish(old, end_ts, fs, fp, uninit, cpu) ==
    LET cs == read_ctxt_switches(fs, kern, uninit)
        pf == read_page_faults(fp, kern)
    IN  [old EXCEPT
            !.runtime_ns = Sub64(end_ts, old.timestamp_ns),
            !.voluntary_ctxt_switches = Sub64(cs.vol, old.voluntary_ctxt_switches),
            !.nonvoluntary_ctxt_switches =
                Sub64(cs.nonvol, old.nonvoluntary_ctxt_switches),
            !.minor_page_faults = Sub64(pf.minor, old.minor_page_faults),
            !.major_page_faults = Sub64(pf.major, old.major_page_faults),
            !.end_cpu = cpu,
            !.timestamp_ns = end_ts]

\* CPUs sched_getcpu() can report
Cpus == {0, 1}

MetricsInitState ==
    /\ mpc = "idle"
    /\ mrun = 0
    /\ clk = 1
    /\ kern = [c \in Counters |-> 1]
    /\ mcpu = 0
    /\ m = ZeroMetrics
    /\ bFail = NoFail
    /\ eFail = NoFail
    /\ beginClk = 0
    /\ endClk = 0
    /\ clockFail = FALSE
    /\ mlines = 0
    /\ mexit = -1

\* for (run = 0; run < RUNS; run++) { ...; metrics_init(&metrics);
MetricsInit ==
    /\ mpc \in {"idle", "emitted"}
    /\ mrun < MaxRuns
    /\ \E ok \in BOOLEAN, g \in GarbageVals, fs \in StatusReads,
          fp \in StatReads :
          /\ (ok => g = 0)
          /\ m' = metrics_init(get_timestamp_ns(ok, g), fs, fp, mcpu)
          /\ bFail' = FailedReads(fs, fp)
          /\ clockFail' = ~ok
    /\ eFail' = NoFail
    /\ beginClk' = clk
    /\ endClk' = 0
    /\ mpc' = "begun"
    /\ UNCHANGED <<mrun, clk, kern, mcpu, mlines, mexit>>
    /\ UNCHANGED notMetrics

\* the workload kernel: time passes, the kernel counts events and the
\* scheduler may move the thread
Workload ==
    /\ mpc = "begun"
    /\ clk' = clk + 1
    /\ \E d \in 0..1 : kern' = [c \in Counters |-> kern[c] + d]
    /\ mcpu' \in Cpus
    /\ mpc' = "ran"
    /\ UNCHANGED <<mrun, m, bFail, eFail, beginClk, endClk, clockFail,
                   mlines, mexit>>
    /\ UNCHANGED notMetrics

\* metrics_finish(&metrics);
MetricsFinish ==
    /\ mpc = "ran"
    /\ \E ok \in BOOLEAN, g \in GarbageVals, fs \in StatusReads,
          fp \in StatReads, uv \in GarbageVals, un \in GarbageVals :
          /\ (ok => g = 0)
          /\ (fs.open /\ fs.volLine => uv = 0)
          /\ (fs.open /\ fs.nonvolLine => un = 0)
          /\ m' = metrics_finish(m, get_timestamp_ns(ok, g), fs, fp,
                                 [vol |-> uv, nonvol |-> un], mcpu)
          /\ eFail' = FailedReads(fs, fp)
          /\ clockFail' = (clockFail \/ ~ok)
    /\ endClk' = clk
    /\ mpc' = "finished"
    /\ UNCHANGED <<mrun, clk, kern, mcpu, bFail, beginClk, mlines, mexit>>
    /\ UNCHANGED notMetrics

\* metrics_print_csv(out, &metrics); } -- the record is written as it stands
\* and the loop goes on to the next run
MetricsPrintCsv ==
    /\ mpc = "finished"
    /\ mlines' = mlines + 1
    /\ mrun' = mrun + 1
    /\ mpc' = "emitted"
    /\ UNCHANGED <<clk, kern, mcpu, m, bFail, eFail, beginClk, endClk, clockFail,
                   mexit>>
    /\ UNCHANGED notMetrics

\* fclose(out); return 0;
MetricsReturn ==
    /\ mpc \in {"idle", "emitted"}
    /\ mrun = MaxRuns
    /\ mpc' = "exited"
    /\ mexit' = 0
    /\ UNCHANGED <<mrun, clk, kern, mcpu, m, bFail, eFail, beginClk, endClk,
                   clockFail, mlines>>
    /\ UNCHANGED notMetrics

MetricsNext ==
    \/ MetricsInit
    \/ Workload
    \/ MetricsFinish
    \/ MetricsPrintCsv
    \/ MetricsReturn


----------------------------------------------------------------------------
(* Properties of the metric record *)

\* C1: for each of the four kernel counters, when the begin-time read or the
\* end-time read of its pseudo-file failed, the value emitted for that
\* counter in that iteration is 0.
C1_FailedReadEmitsZero ==
    mpc = "emitted" =>
        \A c \in Counters : (bFail[c] \/ eFail[c]) => m[c] = 0

\* C2: the emitted timestamp_ns is the clock value captured by metrics_init
\* at the start of the iteration, and timestamp_ns + runtime_ns is the clock
\* value captured by metrics_finish.
C2_TimestampIsBeginClock ==
    (mpc = "emitted" /\ ~clockFail) =>
        /\ m.timestamp_ns = beginClk
        /\ (m.timestamp_ns + m.runtime_ns) % U64Mod = endClk

\* C6: when a read of the monotonic clock failed during metrics_init or
\* metrics_finish, no record computed from it is emitted and the scenario
\* ends with a non-zero exit status.
C6_ClockFailureAborts ==
    clockFail => (mpc # "emitted" /\ (mpc = "exited" => mexit # 0))

----------------------------------------------------------------------------
(* stdio: out is a fully buffered FILE *)

\* chunks the stdio buffer holds before it is written out (BUFSIZ)
StdioBufCap == 3

Chunk(k, label, run, a, b) == [k |-> k, label |-> label, run |-> run, a |-> a, b |-> b]

\* fprintf(out, ...): the text goes to the buffer; a full buffer is written
\* to the file.
Fprintf(buf, file, chunk) ==
    IF Len(buf) + 1 > StdioBufCap
    THEN [buf |-> <<>>, file |-> file \o buf \o <<chunk>>]
    ELSE [buf |-> Append(buf, chunk), file |-> file]

\* fclose(out) / fflush(out): everything buffered is written.
Fflush(buf, file) == [buf |-> <<>>, file |-> file \o buf]

RECURSIVE CountRecords(_)
\* number of complete record lines (those ended by metrics_print_csv)
CountRecords(f) ==
    IF f = <<>> THEN 0
    ELSE (IF Head(f).k = "metrics" THEN 1 ELSE 0) + CountRecords(Tail(f))

----------------------------------------------------------------------------
(* pinned.c *)

GroupLabelReversed(g) == CASE g = 0 -> "cpu1" [] g = 1 -> "cpu0" [] g = 2 -> "unpinned"

GroupLabel(g) == CASE g = 0 -> "unpinned" [] g = 1 -> "cpu0" [] g = 2 -> "cpu1"

\* pin_to_cpu as written with the failure test dropped
pin_to_cpu_unchecked(ok, cpu, aff) ==
    [ret |-> 0, aff |-> IF ok THEN {cpu} ELSE aff]

\* int pin_to_cpu(int cpu): sched_setaffinity to the one-CPU mask; -1 iff the
\* call failed, and then the mask the thread had stays in force
pin_to_cpu(ok, cpu, aff) ==
    IF ok THEN [ret |-> 0, aff |-> {cpu}] ELSE [ret |-> -1, aff |-> aff]

PinnedInitState ==
    /\ ppc = "start"
    /\ pgroup = 0
    /\ prun = 0
    /\ paff = Cpus
    /\ pcpu = 0
    /\ pstart = 0
    /\ pbuf = <<>>
    /\ pfile = <<>>
    /\ pout = "none"
    /\ pemit = 0
    /\ ppins = 0
    /\ psig = FALSE
    /\ pexit = -1

\* FILE *out = fopen(...); if (!out) return 1; header
PinnedOpen ==
    /\ ppc = "start"
    /\ \E ok \in BOOLEAN :
          IF ok
          THEN /\ pout' = "open"
               /\ pbuf' = Fprintf(pbuf, pfile, Chunk("header", "", 0, 0, 0)).buf
               /\ pfile' = Fprintf(pbuf, pfile, Chunk("header", "", 0, 0, 0)).file
               /\ ppc' = "boundary"
               /\ pexit' = pexit
          ELSE /\ ppc' = "exited"
               /\ pexit' = 1
               /\ UNCHANGED <<pout, pbuf, pfile>>
    /\ UNCHANGED <<pgroup, prun, paff, pcpu, pstart, pemit, ppins, psig>>
    /\ UNCHANGED notPinned

\* Top of one iteration of the current loop: in the cpu0 and cpu1 loops the
\* pin comes first and a failed pin skips the iteration (continue); then the
\* record prefix is printed and metrics_init takes start_cpu.
PinnedBegin ==
    /\ ppc = "boundary"
    /\ prun < MaxRuns
    /\ \E pinok \in BOOLEAN :
          LET pin == IF pgroup = 0
                     THEN [ret |-> 0, aff |-> paff]
                     ELSE pin_to_cpu(pinok, pgroup - 1, paff)
          IN
          /\ (pgroup = 0 => pinok)
          /\ IF pin.ret = 0
             THEN /\ paff' = pin.aff
                  /\ pcpu' \in paff'
                  /\ pstart' = pcpu'
                  /\ pbuf' = Fprintf(pbuf, pfile,
                                Chunk("prefix", GroupLabel(pgroup), prun, 0, 0)).buf
                  /\ pfile' = Fprintf(pbuf, pfile,
                                Chunk("prefix", GroupLabel(pgroup), prun, 0, 0)).file
                  /\ ppc' = "spinning"
                  /\ prun' = prun
             ELSE /\ prun' = prun + 1
                  /\ UNCHANGED <<paff, pcpu, pstart, pbuf, pfile, ppc>>
    /\ ppins' = IF pgroup = 0 THEN ppins ELSE ppins + 1
    /\ UNCHANGED <<pgroup, pout, pemit, psig, pexit>>
    /\ UNCHANGED notPinned

\* cpu_spin returns (the scheduler may have moved the thread within its
\* mask); metrics_finish takes end_cpu; metrics_print_csv; run++
PinnedEnd ==
    /\ ppc = "spinning"
    /\ pcpu' \in paff
    /\ LET w == Fprintf(pbuf, pfile,
                    Chunk("metrics", GroupLabel(pgroup), prun, pstart, pcpu'))
       IN  /\ pbuf' = w.buf
           /\ pfile' = w.file
    /\ pemit' = pemit + 1
    /\ prun' = prun + 1
    /\ ppc' = "boundary"
    /\ UNCHANGED <<pgroup, paff, pstart, pout, ppins, psig, pexit>>
    /\ UNCHANGED notPinned

\* one run loop is over, the next one starts at run = 0
PinnedNextGroup ==
    /\ ppc = "boundary"
    /\ prun = MaxRuns
    /\ pgroup < 2
    /\ pgroup' = pgroup + 1
    /\ prun' = 0
    /\ UNCHANGED <<ppc, paff, pcpu, pstart, pbuf, pfile, pout, pemit, ppins, psig,
                   pexit>>
    /\ UNCHANGED notPinned

\* fclose(out); return 0;
PinnedClose ==
    /\ ppc = "boundary"
    /\ prun = MaxRuns
    /\ pgroup = 2
    /\ pbuf' = Fflush(pbuf, pfile).buf
    /\ pfile' = Fflush(pbuf, pfile).file
    /\ pout' = "closed"
    /\ pexit' = 0
    /\ ppc' = "exited"
    /\ UNCHANGED <<pgroup, prun, paff, pcpu, pstart, pemit, ppins, psig>>
    /\ UNCHANGED notPinned

\* SIGINT while main runs.  main installs no handler and polls no flag, so
\* the default disposition applies: the process is terminated where it
\* stands; what stdio still buffers is never written and fclose never runs.
PinnedSigint ==
    /\ ppc \in {"boundary", "spinning"}
    /\ psig' = TRUE
    /\ ppc' = "killed"
    /\ pexit' = 130
    /\ UNCHANGED <<pgroup, prun, paff, pcpu, pstart, pbuf, pfile, pout, pemit,
                   ppins>>
    /\ UNCHANGED notPinned

PinnedNext ==
    \/ PinnedOpen
    \/ PinnedBegin
    \/ PinnedEnd
    \/ PinnedNextGroup
    \/ PinnedClose
    \/ PinnedSigint


\* C5: after a user interrupt the scenario has stopped at an iteration
\* boundary, every record already emitted is in the output file, the file
\* has been closed and main has returned.
C5_InterruptStopsCleanly ==
    (psig /\ ppc \in {"exited", "killed"}) =>
        /\ ppc = "exited"
        /\ pout = "closed"
        /\ CountRecords(pfile) = pemit

\* C12: a record labelled cpu0 or cpu1 is written only while the thread's
\* affinity mask is the single requested CPU, set by a pin that succeeded
\* for this very run, so its start_cpu and its end_cpu are both that CPU.
C12_PinnedRecordsStayOnCpu ==
    /\ (ppc = "spinning" /\ pgroup > 0) => (paff = {pgroup - 1} /\ pstart = pgroup - 1)
    /\ \A k \in 1..Len(pfile \o pbuf) :
          LET c == (pfile \o pbuf)[k] IN
          (c.k = "metrics" /\ c.label \in {"cpu0", "cpu1"}) =>
              /\ c.a = c.b
              /\ c.a = (IF c.label = "cpu0" THEN 0 ELSE 1)

\* the chunks of the output the step under consideration prints
PrintedNow == SubSeq(pfile' \o pbuf', Len(pfile \o pbuf) + 1, Len(pfile' \o pbuf'))

\* C29: whatever is printed for an unpinned record is printed while main has
\* made no pin_to_cpu call and the affinity mask is the one the process
\* started with; whatever is printed for a cpu1 record is printed after a
\* pin_to_cpu(1) that succeeded, with the mask {1} in force (no longer {0}).
C29_UnpinnedBeforeFirstPin ==
    [][\A k \in 1..Len(PrintedNow) :
          LET c == PrintedNow[k] IN
          /\ c.label = "unpinned" => (ppins' = 0 /\ paff' = Cpus)
          /\ c.label = "cpu1" => (ppins' > 0 /\ paff' = {1} /\ pcpu' = 1)]_vars

C29_Witness ==
    /\ pgroup = 2 /\ ppc = "boundary" /\ prun = 1
    /\ paff = {1}
    /\ \E i, j, k \in 1..Len(pfile \o pbuf) :
          /\ i < j /\ j < k
          /\ (pfile \o pbuf)[i].k = "metrics" /\ (pfile \o pbuf)[i].label = "unpinned"
          /\ (pfile \o pbuf)[j].k = "metrics" /\ (pfile \o pbuf)[j].label = "cpu0"
          /\ (pfile \o pbuf)[k].k = "metrics" /\ (pfile \o pbuf)[k].label = "cpu1"

C12_Witness ==
    /\ ppc = "exited"
    /\ \E j, k \in 1..Len(pfile) :
          /\ pfile[j].k = "metrics" /\ pfile[j].label = "cpu0"
          /\ pfile[k].k = "metrics" /\ pfile[k].label = "cpu1"
          /\ pfile[k].a = 1 /\ pfile[k].run = 1

----------------------------------------------------------------------------
(* CSV text: a printed line is a sequence of tokens; a value is written as
   the name of the column it belongs to *)

RECURSIVE CsvJoin(_)
\* "a,b,...,z" for the columns a..z
CsvJoin(cols) ==
    IF Len(cols) = 0 THEN <<>>
    ELSE IF Len(cols) = 1 THEN <<cols[1]>>
    ELSE <<cols[1], ",">> \o CsvJoin(Tail(cols))

MetricsColumns ==
    <<"timestamp_ns", "runtime_ns", "voluntary_ctxt_switches",
      "nonvoluntary_ctxt_switches", "minor_page_faults", "major_page_faults",
      "start_cpu", "end_cpu">>

PerfColumns ==
    <<"instructions", "cycles", "ipc", "l1_dcache_misses", "llc_misses",
      "branches", "branch_misses", "branch_miss_rate">>

\* metrics_print_csv_header(out): the eight names and a newline
metrics_print_csv_header == CsvJoin(MetricsColumns) \o <<"\n">>

\* metrics_print_csv(out, m): "%lu,%lu,%lu,%lu,%lu,%lu,%d,%d\n"
metrics_print_csv == CsvJoin(MetricsColumns) \o <<"\n">>

\* perf_counters_print_csv_header(out)
perf_counters_print_csv_header == CsvJoin(PerfColumns) \o <<"\n">>

\* perf_counters_print_csv(out, pc): "%lu,%lu,%.3f,%lu,%lu,%lu,%lu,%.6f\n"
perf_counters_print_csv == CsvJoin(PerfColumns) \o <<"\n">>

RECURSIVE SplitOn(_, _, _)
\* the pieces of text between occurrences of sep; cur is the piece being
\* collected.  The piece after the last sep is included (possibly empty).
SplitOn(text, sep, cur) ==
    IF text = <<>> THEN <<cur>>
    ELSE IF Head(text) = sep
         THEN <<cur>> \o SplitOn(Tail(text), sep, <<>>)
         ELSE SplitOn(Tail(text), sep, Append(cur, Head(text)))

\* the LF-terminated lines of a text (what follows the last LF is not a line)
Lines(text) ==
    LET pieces == SplitOn(text, "\n", <<>>)
    IN  SubSeq(pieces, 1, Len(pieces) - 1)

\* the comma-separated fields of one line
Fields(line) == SplitOn(line, ",", <<>>)

----------------------------------------------------------------------------
(* perf_counters.c *)

Events == <<"instructions", "cycles", "l1_dcache_misses", "llc_misses",
            "branches", "branch_misses">>

EventSet == {Events[i] : i \in 1..Len(Events)}

\* perf_counters_init: every event is opened; opened[e] says whether
\* perf_event_open succeeded for e.  The descriptors are kept whatever the
\* result.
perf_counters_init_fds(opened) ==
    [e \in EventSet |-> IF opened[e] THEN 3 ELSE -1]

\* ... return -1 when instructions or cycles did not open, else 0
perf_counters_init_result(fds) ==
    IF fds["instructions"] < 0 \/ fds["cycles"] < 0 THEN -1 ELSE 0

\* perf_counters_start with the two ioctls in the other order
perf_counters_start_enable_first(fds, log) ==
    [e \in EventSet |->
        IF fds[e] >= 0 THEN log[e] \o <<"enable", "reset">> ELSE log[e]]

\* perf_counters_start: reset then enable, for each descriptor >= 0
perf_counters_start(fds, log) ==
    [e \in EventSet |->
        IF fds[e] >= 0 THEN log[e] \o <<"reset", "enable">> ELSE log[e]]

\* perf_counters_stop: disable then read, for each descriptor >= 0
perf_counters_stop(fds, log) ==
    [e \in EventSet |->
        IF fds[e] >= 0 THEN log[e] \o <<"disable", "read">> ELSE log[e]]

\* perf_counters_close that does nothing when the group is unavailable
perf_counters_close_if_available(fds, log) ==
    [e \in EventSet |->
        IF fds[e] >= 0 /\ perf_counters_init_result(fds) = 0
        THEN Append(log[e], "close") ELSE log[e]]

\* perf_counters_close: close each descriptor >= 0
perf_counters_close(fds, log) ==
    [e \in EventSet |->
        IF fds[e] >= 0 THEN Append(log[e], "close") ELSE log[e]]

----------------------------------------------------------------------------
(* cache_analysis.c *)

\* number of entries of buffer_sizes[] the model runs through
CacheConds == 2

CacheInitState ==
    /\ cpc = "start"
    /\ ccond = 0
    /\ crun = 0
    /\ cfd = [e \in EventSet |-> 0]
    /\ cavail = 1
    /\ clog = [e \in EventSet |-> <<>>]
    /\ cbuffer = "none"
    /\ cpinok = TRUE
    /\ cout = <<>>
    /\ crecords = 0
    /\ cfile = "none"
    /\ cexit = -1

\* fopen; perf_counters_init; the header; pin_to_cpu(0), whose result is
\* not looked at
CacheStart ==
    /\ cpc = "start"
    /\ \E ok \in BOOLEAN :
          IF ~ok
          THEN /\ cpc' = "exited"
               /\ cexit' = 1
               /\ UNCHANGED <<cfd, cavail, cpinok, cout, cfile>>
          ELSE \E opened \in [EventSet -> BOOLEAN], pinok \in BOOLEAN :
               LET fds == perf_counters_init_fds(opened)
               IN  /\ cfile' = "open"
                   /\ cfd' = fds
                   /\ cavail' = perf_counters_init_result(fds)
                   /\ cout' =
                        IF perf_counters_init_result(fds) < 0
                        THEN <<"run", ",", "buffer_size", ",">>
                             \o metrics_print_csv_header
                        ELSE <<"run", ",", "buffer_size", ",">>
                             \o metrics_print_csv_header
                             \o <<",">> \o perf_counters_print_csv_header
                   /\ cpinok' = pinok
                   /\ cpc' = "cond"
                   /\ cexit' = cexit
    /\ UNCHANGED <<ccond, crun, clog, cbuffer, crecords>>
    /\ UNCHANGED notCache

\* top of the loop over buffer_sizes: malloc, and continue when it fails
CacheAlloc ==
    /\ cpc = "cond"
    /\ ccond < CacheConds
    /\ \E ok \in BOOLEAN :
          IF ok
          THEN /\ cbuffer' = "allocated"
               /\ crun' = 0
               /\ cpc' = "run"
               /\ ccond' = ccond
          ELSE /\ ccond' = ccond + 1
               /\ UNCHANGED <<cbuffer, crun, cpc>>
    /\ UNCHANGED <<cfd, cavail, clog, cpinok, cout, crecords, cfile, cexit>>
    /\ UNCHANGED notCache

\* fprintf(out, "%d,%s,", run, name); metrics_init;
\* if (perf.fd_instructions >= 0) perf_counters_start(&perf);
CacheBegin ==
    /\ cpc = "run"
    /\ crun < MaxRuns
    /\ cout' = cout \o <<"run", ",", "buffer_size", ",">>
    /\ clog' = IF cfd["instructions"] >= 0
               THEN perf_counters_start(cfd, clog) ELSE clog
    /\ cpc' = "measuring"
    /\ UNCHANGED <<ccond, crun, cfd, cavail, cbuffer, cpinok, crecords, cfile,
                   cexit>>
    /\ UNCHANGED notCache

\* memory_stream_read returns; perf_counters_stop under the same test;
\* metrics_finish; metrics_print_csv; then "," and the perf values, or "\n"
CacheEnd ==
    /\ cpc = "measuring"
    /\ clog' = IF cfd["instructions"] >= 0
               THEN perf_counters_stop(cfd, clog) ELSE clog
    /\ cout' = cout \o metrics_print_csv
                    \o (IF cfd["instructions"] >= 0
                        THEN <<",">> \o perf_counters_print_csv
                        ELSE <<"\n">>)
    /\ crecords' = crecords + 1
    /\ crun' = crun + 1
    /\ cpc' = "run"
    /\ UNCHANGED <<ccond, cfd, cavail, cbuffer, cpinok, cfile, cexit>>
    /\ UNCHANGED notCache

\* the run loop is over: free(buffer); next buffer size
CacheFree ==
    /\ cpc = "run"
    /\ crun = MaxRuns
    /\ cbuffer' = "freed"
    /\ ccond' = ccond + 1
    /\ cpc' = "cond"
    /\ UNCHANGED <<crun, cfd, cavail, clog, cpinok, cout, crecords, cfile, cexit>>
    /\ UNCHANGED notCache

\* perf_counters_close(&perf); fclose(out); return 0;
CacheFinish ==
    /\ cpc = "cond"
    /\ ccond = CacheConds
    /\ clog' = perf_counters_close(cfd, clog)
    /\ cfile' = "closed"
    /\ cexit' = 0
    /\ cpc' = "exited"
    /\ UNCHANGED <<ccond, crun, cfd, cavail, cbuffer, cpinok, cout, crecords>>
    /\ UNCHANGED notCache

CacheNext ==
    \/ CacheStart
    \/ CacheAlloc
    \/ CacheBegin
    \/ CacheEnd
    \/ CacheFree
    \/ CacheFinish

\* C3: when perf_counters_init reported the group unavailable, no counter is
\* reset, enabled, disabled or read and no hardware-counter field is written.
C3_UnavailableGroupIsNoOp ==
    cavail = -1 =>
        /\ \A e \in EventSet : \A i \in 1..Len(clog[e]) :
              clog[e][i] \notin {"reset", "enable", "disable", "read"}
        /\ \A i \in 1..Len(cout) :
              cout[i] \notin {PerfColumns[j] : j \in 1..Len(PerfColumns)}

\* the operations done on a descriptor before it is closed
OpsBeforeClose(log) ==
    IF Len(log) > 0 /\ log[Len(log)] = "close" THEN SubSeq(log, 1, Len(log) - 1)
    ELSE log

\* C24: on every live descriptor the operations come in rounds of reset,
\* enable, disable, read, the workload running between enable and disable;
\* an event whose open failed is never reset, enabled, disabled or read.
C24_ResetEnableDisableRead ==
    cfile # "none" =>
        \A e \in EventSet :
            LET ops == OpsBeforeClose(clog[e]) IN
            /\ \A i \in 1..Len(ops) :
                  ops[i] = <<"reset", "enable", "disable", "read">>[((i - 1) % 4) + 1]
            /\ cfd[e] < 0 => clog[e] = <<>>
            /\ (cpc = "measuring" /\ Len(ops) > 0) => ops[Len(ops)] = "enable"
            /\ (cpc # "measuring") => Len(ops) % 4 = 0

C24_Witness ==
    /\ cpc = "measuring"
    /\ crecords >= 1
    /\ cfd["branches"] < 0
    /\ Len(clog["instructions"]) = 6
    /\ Len(clog["llc_misses"]) = 6

\* C25: a descriptor opened by init is closed exactly once, by close() at
\* the end of the scenario and not before, also when init reported the
\* group unavailable; nothing is done on a descriptor after its close.
C25_ClosedExactlyOnce ==
    cfile # "none" =>
        \A e \in EventSet :
            LET closes == {i \in 1..Len(clog[e]) : clog[e][i] = "close"} IN
            /\ closes = (IF cpc = "exited" /\ cfd[e] >= 0 THEN {Len(clog[e])} ELSE {})
            /\ (cpc = "exited" /\ cfd[e] >= 0) => Len(clog[e]) > 0

C25_Witness ==
    /\ cpc = "exited"
    /\ cexit = 0
    /\ cavail = -1
    /\ cfd["instructions"] < 0
    /\ cfd["cycles"] >= 0
    /\ clog["cycles"] = <<"close">>
    /\ crecords > 0

\* C4: the output is one header line followed by one LF-terminated line per
\* iteration, and every record line has the header's fields, in its order.
C4_OneLinePerRecord ==
    cpc \in {"cond", "run", "exited"} /\ cfile # "none" =>
        LET ls == Lines(cout)
        IN  /\ Len(ls) = 1 + crecords
            /\ \A i \in 1..Len(ls) : Fields(ls[i]) = Fields(ls[1])

----------------------------------------------------------------------------
(* numa_locality.c *)

PhaseBuffer(ph) == IF ph = "local" THEN "local_buffer" ELSE "remote_buffer"

\* heap calls made by one call of memory_random_chase: malloc(indices),
\* and free(indices) when the malloc succeeded
memory_random_chase_heapcalls(mallocok) == IF mallocok THEN 2 ELSE 1

NumaInitState ==
    /\ npc = "start"
    /\ nphase = "local"
    /\ nrun = 0
    /\ nnodes = 1
    /\ nheld = {}
    /\ nregion = FALSE
    /\ nheapcalls = 0
    /\ npinok = TRUE
    /\ nrecords = 0
    /\ nexit = -1

\* numa_is_available(); fopen (return 1 when it fails); the header;
\* pin_to_cpu(cpu0), whose result is not looked at; "Pinned to CPU %d"
NumaStart ==
    /\ npc = "start"
    /\ nnodes' \in {1, 2}
    /\ \E ok \in BOOLEAN :
          IF ~ok
          THEN /\ npc' = "exited"
               /\ nexit' = 1
               /\ UNCHANGED <<nheld, npinok>>
          ELSE /\ nheld' = {"out"}
               /\ npinok' \in BOOLEAN
               /\ npc' = "alloc"
               /\ nexit' = nexit
    /\ UNCHANGED <<nphase, nrun, nregion, nheapcalls, nrecords>>
    /\ UNCHANGED notNuma

\* buffer = numa_alloc_on_node(BUFFER_SIZE, node); if (!buffer) return 1;
\* memset
NumaAlloc ==
    /\ npc = "alloc"
    /\ \E ok \in BOOLEAN :
          IF ok
          THEN /\ nheld' = nheld \cup {PhaseBuffer(nphase)}
               /\ nrun' = 0
               /\ npc' = "run"
               /\ nexit' = nexit
          ELSE /\ npc' = "exited"
               /\ nexit' = 1
               /\ UNCHANGED <<nheld, nrun>>
    /\ UNCHANGED <<nphase, nnodes, nregion, nheapcalls, npinok, nrecords>>
    /\ UNCHANGED notNuma

\* fprintf(out, "%d,local,", run); metrics_init(&metrics);
NumaBegin ==
    /\ npc = "run"
    /\ nrun < MaxRuns
    /\ nregion' = TRUE
    /\ npc' = "measuring"
    /\ UNCHANGED <<nphase, nrun, nnodes, nheld, nheapcalls, npinok,
                   nrecords, nexit>>
    /\ UNCHANGED notNuma

\* memory_random_chase(buffer, BUFFER_SIZE, ITERATIONS): allocates the index
\* array, builds the chain, frees the array, then chases
NumaChase ==
    /\ npc = "measuring"
    /\ \E mallocok \in BOOLEAN :
          nheapcalls' = nheapcalls +
              (IF nregion THEN memory_random_chase_heapcalls(mallocok) ELSE 0)
    /\ npc' = "chased"
    /\ UNCHANGED <<nphase, nrun, nnodes, nheld, nregion, npinok,
                   nrecords, nexit>>
    /\ UNCHANGED notNuma

\* metrics_finish(&metrics); metrics_print_csv(out, &metrics);
NumaEnd ==
    /\ npc = "chased"
    /\ nregion' = FALSE
    /\ nrecords' = nrecords + 1
    /\ nrun' = nrun + 1
    /\ npc' = "run"
    /\ UNCHANGED <<nphase, nnodes, nheld, nheapcalls, npinok, nexit>>
    /\ UNCHANGED notNuma

\* numa_free(buffer, BUFFER_SIZE); then the remote phase, or
\* fclose(out); return 0;
NumaFree ==
    /\ npc = "run"
    /\ nrun = MaxRuns
    /\ IF nphase = "local"
       THEN /\ nheld' = nheld \ {"local_buffer"}
            /\ nphase' = "remote"
            /\ npc' = "alloc"
            /\ nexit' = nexit
       ELSE /\ nheld' = (nheld \ {"remote_buffer"}) \ {"out"}
            /\ nphase' = nphase
            /\ npc' = "exited"
            /\ nexit' = 0
    /\ UNCHANGED <<nrun, nnodes, nregion, nheapcalls, npinok, nrecords>>
    /\ UNCHANGED notNuma

NumaNext ==
    \/ NumaStart
    \/ NumaAlloc
    \/ NumaBegin
    \/ NumaChase
    \/ NumaEnd
    \/ NumaFree

\* C7: no heap allocation or deallocation happens between a record's
\* metrics_init and the matching metrics_finish.
C7_NoHeapInMeasuredRegion == nheapcalls = 0

\* C8: whenever the scenario has returned, everything it acquired (output
\* file, buffers) has been released.
C8_ReleasedOnEveryExit == npc = "exited" => nheld = {}

\* C10: a denied pin makes the scenario skip the affected runs with a
\* visible warning: no record comes from a run whose requested pin failed.
C10_DeniedPinSkipsRuns == ~npinok => nrecords = 0

----------------------------------------------------------------------------
(* mixed_workload.c and realistic_patterns.c *)

Patterns == <<"compute_heavy", "balanced", "memory_heavy", "phased", "bursty">>

\* mixed_workload_init: "ok", the buffer malloc fails ("nobuffer": indices is
\* never assigned), or the indices malloc fails ("noindices": the buffer is
\* freed but w->buffer keeps the pointer)
InitOutcomes == {"ok", "nobuffer", "noindices"}

mixed_workload_init(outcome, oldindices) ==
    CASE outcome = "ok" ->
            [ret |-> 0, buffer |-> "valid", indices |-> "valid"]
      [] outcome = "nobuffer" ->
            [ret |-> -1, buffer |-> "null", indices |-> oldindices]
      [] outcome = "noindices" ->
            [ret |-> -1, buffer |-> "freed", indices |-> "null"]

RealInitState ==
    /\ rpc = "start"
    /\ rcond = 1
    /\ rrun = 0
    /\ rbuffer = "unset"
    /\ rindices = "unset"
    /\ rinit = 0
    /\ rbadrun = 0
    /\ rbadrec = 0
    /\ rrecords = 0
    /\ rfile = "none"
    /\ rexit = -1

\* fopen (return 1 when it fails); pin_to_cpu(0); the header
RealStart ==
    /\ rpc = "start"
    /\ \E ok \in BOOLEAN :
          IF ok
          THEN /\ rfile' = "open"
               /\ rpc' = "top"
               /\ rexit' = rexit
          ELSE /\ rpc' = "exited"
               /\ rexit' = 1
               /\ rfile' = rfile
    /\ UNCHANGED <<rcond, rrun, rbuffer, rindices, rinit, rbadrun, rbadrec, rrecords>>
    /\ UNCHANGED notReal

\* mixed_workload_t work; mixed_workload_init(&work, ...), whose result is
\* not looked at; the record prefix; metrics_init
RealBegin ==
    /\ rpc = "top"
    /\ rrun < MaxRuns
    /\ \E outcome \in InitOutcomes :
          LET w == mixed_workload_init(outcome, "unset")
          IN  /\ rinit' = w.ret
              /\ rbuffer' = w.buffer
              /\ rindices' = w.indices
    /\ rpc' = "measuring"
    /\ UNCHANGED <<rcond, rrun, rbadrun, rbadrec, rrecords, rfile, rexit>>
    /\ UNCHANGED notReal

\* the kernel (mixed_workload_run / _phased / _bursty) reads w->indices and
\* w->buffer, whatever they hold: on pointers that are not valid the access
\* either faults (the process dies) or goes through; then metrics_finish,
\* the record, mixed_workload_cleanup and run++
RealEnd ==
    /\ rpc = "measuring"
    /\ \E faults \in BOOLEAN :
          /\ (rbuffer = "valid" /\ rindices = "valid" => ~faults)
          /\ rbadrun' = rbadrun + (IF rinit < 0 THEN 1 ELSE 0)
          /\ IF faults
             THEN /\ rpc' = "crashed"
                  /\ rexit' = 139
                  /\ UNCHANGED <<rbadrec, rrecords, rrun, rbuffer, rindices>>
             ELSE /\ rrecords' = rrecords + 1
                  /\ rbadrec' = rbadrec + (IF rinit < 0 THEN 1 ELSE 0)
                  /\ rbuffer' = "freed"
                  /\ rindices' = "freed"
                  /\ rrun' = rrun + 1
                  /\ rpc' = "top"
                  /\ rexit' = rexit
    /\ UNCHANGED <<rcond, rinit, rfile>>
    /\ UNCHANGED notReal

\* one pattern's loop is over: the next pattern, or fclose(out); return 0;
RealNextPattern ==
    /\ rpc = "top"
    /\ rrun = MaxRuns
    /\ IF rcond < Len(Patterns)
       THEN /\ rcond' = rcond + 1
            /\ rrun' = 0
            /\ UNCHANGED <<rpc, rfile, rexit>>
       ELSE /\ rfile' = "closed"
            /\ rpc' = "exited"
            /\ rexit' = 0
            /\ UNCHANGED <<rcond, rrun>>
    /\ UNCHANGED <<rbuffer, rindices, rinit, rbadrun, rbadrec, rrecords>>
    /\ UNCHANGED notReal

RealNext ==
    \/ RealStart
    \/ RealBegin
    \/ RealEnd
    \/ RealNextPattern

\* C9: when the buffers of one condition could not be allocated, its kernel
\* is not run on the unallocated memory, no record is emitted for it and the
\* scenario goes on to the next condition.
C9_FailedAllocSkipsCondition ==
    rbadrun = 0 /\ rbadrec = 0 /\ rpc # "crashed"

----------------------------------------------------------------------------
(* nice_levels.c: the CPU kernel at four nice values *)

\* static const int nice_levels[] and nice_names[]
nice_levels == <<0, -10, 10, 19>>

nice_names == <<"nice0", "nice-10", "nice10", "nice19">>

\* set_nice as written with the failure test dropped
set_nice_unchecked(ok, cur, n) ==
    [ret |-> 0, nice |-> IF ok THEN n ELSE cur]

\* int set_nice(int nice_value): -1 iff setpriority returned -1; ok is the
\* kernel's verdict, cur the nice value the process keeps when it is denied
set_nice(ok, cur, n) ==
    IF ok THEN [ret |-> 0, nice |-> n] ELSE [ret |-> -1, nice |-> cur]

NiceInitState ==
    /\ lvpc = "start"
    /\ lvi = 1
    /\ lvrun = 0
    /\ lvnice = 0
    /\ lvtried = <<>>
    /\ lvfailed = {}
    /\ lvwarned = {}
    /\ lvrecords = <<>>
    /\ lvexit = -1

\* fopen("../data/nice_levels.csv", "w"); if (!out) return 1; header
NiceOpen ==
    /\ lvpc = "start"
    /\ \E opened \in BOOLEAN :
          IF opened
          THEN /\ lvpc' = "level"
               /\ lvexit' = lvexit
          ELSE /\ lvpc' = "exited"
               /\ lvexit' = 1
    /\ UNCHANGED <<lvi, lvrun, lvnice, lvtried, lvfailed, lvwarned, lvrecords>>
    /\ UNCHANGED notNice

\* for (i...) { if (set_nice(nice_val) == -1) { printf("Warning..."); continue; }
NiceSetLevel ==
    /\ lvpc = "level"
    /\ lvi <= Len(nice_levels)
    /\ \E ok \in BOOLEAN :
          LET r == set_nice(ok, lvnice, nice_levels[lvi]) IN
          /\ lvnice' = r.nice
          /\ lvtried' = Append(lvtried, nice_levels[lvi])
          /\ lvfailed' = (IF ok THEN lvfailed ELSE lvfailed \cup {lvi})
          /\ IF r.ret = -1
             THEN /\ lvwarned' = lvwarned \cup {lvi}
                  /\ lvi' = lvi + 1
                  /\ lvpc' = "level"
             ELSE /\ lvwarned' = lvwarned
                  /\ lvi' = lvi
                  /\ lvpc' = "runs"
    /\ lvrun' = 0
    /\ UNCHANGED <<lvrecords, lvexit>>
    /\ UNCHANGED notNice

\* fprintf(out, "%d,%s,", run, name); metrics_init(&metrics); cpu_spin
NiceBegin ==
    /\ lvpc = "runs"
    /\ lvrun < MaxRuns
    /\ lvpc' = "measuring"
    /\ UNCHANGED <<lvi, lvrun, lvnice, lvtried, lvfailed, lvwarned, lvrecords,
                   lvexit>>
    /\ UNCHANGED notNice

\* metrics_finish(&metrics); metrics_print_csv(out, &metrics); } -- the
\* record of the run, labelled nice_names[i]
NiceEnd ==
    /\ lvpc = "measuring"
    /\ lvrecords' = Append(lvrecords,
                       [run |-> lvrun, label |-> nice_names[lvi],
                        level |-> lvi, nice |-> lvnice])
    /\ lvrun' = lvrun + 1
    /\ lvpc' = "runs"
    /\ UNCHANGED <<lvi, lvnice, lvtried, lvfailed, lvwarned, lvexit>>
    /\ UNCHANGED notNice

\* the inner loop ends: next i
NiceNextLevel ==
    /\ lvpc = "runs"
    /\ lvrun = MaxRuns
    /\ lvi' = lvi + 1
    /\ lvpc' = "level"
    /\ UNCHANGED <<lvrun, lvnice, lvtried, lvfailed, lvwarned, lvrecords, lvexit>>
    /\ UNCHANGED notNice

\* fclose(out); return 0;
NiceReturn ==
    /\ lvpc = "level"
    /\ lvi > Len(nice_levels)
    /\ lvpc' = "exited"
    /\ lvexit' = 0
    /\ UNCHANGED <<lvi, lvrun, lvnice, lvtried, lvfailed, lvwarned, lvrecords>>
    /\ UNCHANGED notNice

NiceNext ==
    \/ NiceOpen
    \/ NiceSetLevel
    \/ NiceBegin
    \/ NiceEnd
    \/ NiceNextLevel
    \/ NiceReturn

\* "nice%d" of a nice value, the label a reader of the CSV expects
NiceLabelOf(n) ==
    CASE n = 0 -> "nice0"
      [] n = -10 -> "nice-10"
      [] n = 10 -> "nice10"
      [] n = 19 -> "nice19"
      [] OTHER -> "none"

\* C11: a level whose set_nice failed is warned about and has no record, the
\* levels are tried in their declared order to the end, main returns 0 once
\* the output file is open, and each record is labelled with the nice value
\* the process really had when it was measured.
C11_DeniedNiceSkipsLevel ==
    /\ lvwarned = lvfailed
    /\ \A k \in 1..Len(lvrecords) :
          /\ lvrecords[k].level \notin lvfailed
          /\ lvrecords[k].label = NiceLabelOf(lvrecords[k].nice)
    /\ lvtried = SubSeq(nice_levels, 1, Len(lvtried))
    /\ (lvpc = "exited" /\ lvexit # 1) =>
          /\ lvexit = 0
          /\ lvtried = nice_levels

C11_Witness ==
    /\ lvpc = "exited"
    /\ lvexit = 0
    /\ 2 \in lvfailed
    /\ \E k \in 1..Len(lvrecords) : lvrecords[k].level = 4

----------------------------------------------------------------------------
(* Process creation benchmark: fork, vfork, clone(CLONE_VM), posix_spawn *)

ProcVariants == <<"fork", "vfork", "clone_vm", "posix_spawn">>

ProcInitState ==
    /\ qpc = "loop"
    /\ qvariant = 1
    /\ qi = 0
    /\ qrun = 0
    /\ qstack = FALSE
    /\ qchild = FALSE
    /\ qattempts = 0
    /\ qrecords = <<>>
    /\ qwaits = 0

\* a parent branch that never waits
parent_branch_nowait(pid) ==
    [wait |-> FALSE, ret |-> IF pid > 0 THEN 1 ELSE 0]

\* what test_* does with the result of the creating call: pid > 0 (ret == 0
\* for posix_spawn) is waited for and the elapsed time, positive, is
\* returned; otherwise perror and return 0
parent_branch(pid) ==
    IF pid > 0 THEN [wait |-> TRUE, ret |-> 1] ELSE [wait |-> FALSE, ret |-> 0]

\* start_ts = get_time_ns(); test_*() up to the creating call: fork, vfork,
\* clone (after malloc of the stack) or posix_spawn.  On failure the
\* function returns 0 and run_experiment's if (runtime > 0) prints nothing.
ProcCreate ==
    /\ qpc = "loop"
    /\ qi < MaxRuns
    /\ qattempts' = qattempts + 1
    /\ \E mallocok \in BOOLEAN, created \in BOOLEAN :
          /\ (ProcVariants[qvariant] # "clone_vm" => mallocok)
          /\ IF mallocok /\ created
             THEN /\ qchild' = TRUE
                  /\ qstack' = (ProcVariants[qvariant] = "clone_vm")
                  /\ qpc' = "created"
                  /\ qi' = qi
                  /\ qwaits' = qwaits
             ELSE /\ qchild' = FALSE
                  /\ qstack' = FALSE
                  /\ qpc' = "loop"
                  /\ qi' = qi + 1
                  /\ qwaits' = (IF mallocok /\ parent_branch(-1).wait
                                THEN qwaits + 1 ELSE qwaits)
    /\ UNCHANGED <<qvariant, qrun, qrecords>>
    /\ UNCHANGED notProc

\* waitpid(pid, NULL, 0); runtime = get_time_ns() - start (positive: the
\* child was created and waited for); free(stack); the record; run++
ProcWait ==
    /\ qpc = "created"
    /\ qchild' = (qchild /\ ~parent_branch(1).wait)
    /\ qwaits' = (IF parent_branch(1).wait THEN qwaits + 1 ELSE qwaits)
    /\ qstack' = FALSE
    /\ qrecords' = (IF parent_branch(1).ret > 0
                    THEN Append(qrecords,
                                [run |-> qrun, type |-> ProcVariants[qvariant]])
                    ELSE qrecords)
    /\ qrun' = (IF parent_branch(1).ret > 0 THEN qrun + 1 ELSE qrun)
    /\ qi' = qi + 1
    /\ qpc' = "loop"
    /\ UNCHANGED <<qvariant, qattempts>>
    /\ UNCHANGED notProc

\* one loop is over, the next variant's loop starts at i = 0
ProcNextVariant ==
    /\ qpc = "loop"
    /\ qi = MaxRuns
    /\ qvariant < Len(ProcVariants)
    /\ qvariant' = qvariant + 1
    /\ qi' = 0
    /\ UNCHANGED <<qpc, qrun, qstack, qchild, qattempts, qrecords, qwaits>>
    /\ UNCHANGED notProc

\* run_experiment returns; main closes the CSV and returns 0
ProcReturn ==
    /\ qpc = "loop"
    /\ qi = MaxRuns
    /\ qvariant = Len(ProcVariants)
    /\ qpc' = "exited"
    /\ UNCHANGED <<qvariant, qi, qrun, qstack, qchild, qattempts, qrecords,
                   qwaits>>
    /\ UNCHANGED notProc

ProcNext ==
    \/ ProcCreate
    \/ ProcWait
    \/ ProcNextVariant
    \/ ProcReturn

\* C27: when an iteration's function has returned, the child it created,
\* if any, has been waited for and the clone stack is freed; waitpid is
\* called once per created child and never for a failed creation, which
\* returns 0 and so leaves no record.
C27_ChildrenReaped ==
    /\ qpc \in {"loop", "exited"} => (~qchild /\ ~qstack)
    /\ qpc \in {"loop", "exited"} => qwaits = Len(qrecords)
    /\ qwaits <= qattempts

C27_Witness ==
    /\ qpc = "exited"
    /\ qwaits >= 2
    /\ qwaits < qattempts
    /\ \E k \in 1..Len(qrecords) : qrecords[k].type = "clone_vm"
    /\ \E k \in 1..Len(qrecords) : qrecords[k].type = "posix_spawn"

\* C13: when the scenario has run to completion its output holds one record
\* for every iteration of every attempted condition, iterations whose kernel
\* failed included.
C13_OneRecordPerIteration ==
    qpc = "exited" =>
        /\ qattempts = MaxRuns * Len(ProcVariants)
        /\ Len(qrecords) = qattempts

----------------------------------------------------------------------------
(* NUMA API: numa_get_node_count, numa_alloc_on_node, numa_alloc_interleaved,
   numa_free *)

MaxNodes == 3

MaxPtrs == 2

MaxCalls == 4

NUMA_MAXNODES == 256

\* the sentinel cached_node_count starts with
UNCACHED == -2

RECURSIVE CountNodeDirs(_, _)
\* for (i = 0; i < NUMA_MAXNODES; i++) if (access(nodei) == 0) count++; else break;
CountNodeDirs(sys, i) ==
    IF i < NUMA_MAXNODES /\ i \in sys THEN 1 + CountNodeDirs(sys, i + 1) ELSE 0

\* numa_get_node_count without the cached-value test
numa_get_node_count_uncached(cached, sys) ==
    LET count == CountNodeDirs(sys, 0)
        v == IF count > 0 THEN count ELSE -1
    IN  [ret |-> v, cached |-> v, probed |-> TRUE]

\* int numa_get_node_count(void): the value returned, the new value of
\* cached_node_count, and whether the filesystem was touched
numa_get_node_count(cached, sys) ==
    IF cached # UNCACHED
    THEN [ret |-> cached, cached |-> cached, probed |-> FALSE]
    ELSE LET count == CountNodeDirs(sys, 0)
             v == IF count > 0 THEN count ELSE -1
         IN  [ret |-> v, cached |-> v, probed |-> TRUE]

\* the bookkeeping of one numa_get_node_count call
NodeCountCalled(r) ==
    /\ acached' = r.cached
    /\ aseen' = aseen \cup {r.ret}
    /\ aprobes' = (IF r.probed THEN aprobes + 1 ELSE aprobes)
    /\ aprobed' = (IF r.probed /\ aprobes = 0 THEN asys ELSE aprobed)

\* numa_alloc_on_node(size, node): "heap" for malloc's block, "mmap" for a
\* mapping, "none" for NULL
numa_alloc_on_node(node_count, node, mallocok, mmapok) ==
    IF node_count < 2 THEN (IF mallocok THEN "heap" ELSE "none")
    ELSE IF node < 0 \/ node >= node_count THEN "none"
    ELSE IF ~mmapok THEN "none"
    ELSE "mmap"

\* numa_alloc_interleaved(size)
numa_alloc_interleaved(node_count, mallocok, mmapok) ==
    IF node_count < 2 THEN (IF mallocok THEN "heap" ELSE "none")
    ELSE IF ~mmapok THEN "none"
    ELSE "mmap"

\* numa_free that always takes the heap path
numa_free_heap_only(node_count, unmapok) ==
    [via |-> "free", ret |-> 0]

\* numa_free(ptr, size) for a non-null ptr: the path taken and the result
numa_free(node_count, unmapok) ==
    IF node_count >= 2
    THEN [via |-> "munmap", ret |-> IF unmapok THEN 0 ELSE -1]
    ELSE [via |-> "free", ret |-> 0]

ApiInitState ==
    /\ asys = 0 .. 1
    /\ acached = UNCACHED
    /\ aprobes = 0
    /\ aprobed = {}
    /\ aseen = {}
    /\ alive = [p \in 1..MaxPtrs |-> "none"]
    /\ areleased = {}
    /\ acalls = 0

\* the node directories under /sys change (memory hotplug, a different
\* machine state than at the first query)
ApiSysChange ==
    /\ \E s \in SUBSET (0 .. MaxNodes - 1) :
          /\ s # asys
          /\ asys' = s
    /\ UNCHANGED <<acached, aprobes, aprobed, aseen, alive, areleased, acalls>>
    /\ UNCHANGED notApi

\* a caller asks numa_get_node_count() / numa_is_available()
ApiNodeCount ==
    /\ acalls < MaxCalls
    /\ acalls' = acalls + 1
    /\ NodeCountCalled(numa_get_node_count(acached, asys))
    /\ UNCHANGED <<asys, alive, areleased>>
    /\ UNCHANGED notApi

\* ptr = numa_alloc_on_node(size, node)
ApiAllocOnNode ==
    /\ acalls < MaxCalls
    /\ acalls' = acalls + 1
    /\ \E p \in 1..MaxPtrs, node \in -1 .. MaxNodes, mallocok, mmapok \in BOOLEAN :
          LET r == numa_get_node_count(acached, asys) IN
          /\ alive[p] = "none"
          /\ NodeCountCalled(r)
          /\ alive' = [alive EXCEPT ![p] =
                         numa_alloc_on_node(r.ret, node, mallocok, mmapok)]
    /\ UNCHANGED <<asys, areleased>>
    /\ UNCHANGED notApi

\* ptr = numa_alloc_interleaved(size)
ApiAllocInterleaved ==
    /\ acalls < MaxCalls
    /\ acalls' = acalls + 1
    /\ \E p \in 1..MaxPtrs, mallocok, mmapok \in BOOLEAN :
          LET r == numa_get_node_count(acached, asys) IN
          /\ alive[p] = "none"
          /\ NodeCountCalled(r)
          /\ alive' = [alive EXCEPT ![p] =
                         numa_alloc_interleaved(r.ret, mallocok, mmapok)]
    /\ UNCHANGED <<asys, areleased>>
    /\ UNCHANGED notApi

\* numa_free(ptr, size) of a pointer one of the allocators returned; a NULL
\* ptr returns 0 before the node count is looked at
ApiFree ==
    /\ acalls < MaxCalls
    /\ acalls' = acalls + 1
    /\ \E p \in 1..MaxPtrs, unmapok \in BOOLEAN :
          IF alive[p] = "none"
          THEN UNCHANGED <<acached, aseen, aprobes, aprobed, alive, areleased>>
          ELSE LET r == numa_get_node_count(acached, asys)
                   f == numa_free(r.ret, unmapok)
               IN  /\ NodeCountCalled(r)
                   /\ areleased' = areleased \cup
                                      {[how |-> alive[p], via |-> f.via, ret |-> f.ret]}
                   /\ alive' = [alive EXCEPT ![p] =
                                   IF f.ret = 0 THEN "none" ELSE alive[p]]
    /\ UNCHANGED asys
    /\ UNCHANGED notApi

ApiNext ==
    \/ ApiSysChange
    \/ ApiNodeCount
    \/ ApiAllocOnNode
    \/ ApiAllocInterleaved
    \/ ApiFree

\* C14: whatever the order of alloc_on_node, alloc_interleaved and free calls,
\* a pointer is released by munmap exactly when it was obtained by mmap, and
\* by the heap deallocator exactly when it came from malloc.
C14_FreePathMatchesAlloc ==
    \A r \in areleased :
        /\ (r.via = "munmap") <=> (r.how = "mmap")
        /\ (r.via = "free") <=> (r.how = "heap")

C14_Witness ==
    /\ \E r \in areleased : r.how = "mmap" /\ r.via = "munmap" /\ r.ret = 0
    /\ CountNodeDirs(asys, 0) < 2
    /\ \E p \in 1..MaxPtrs : alive[p] = "mmap"

\* C15: the node directories are enumerated at most once; what is stored is
\* the number of directories node0, node1, ... up to the first missing one,
\* or -1 when there is none; every call returns that stored value, and the
\* "uncached" sentinel -2 is never returned.
C15_NodeCountProbedOnce ==
    /\ aprobes <= 1
    /\ UNCACHED \notin aseen
    /\ (aprobes = 0) <=> (acached = UNCACHED)
    /\ (aprobes = 0) => aseen = {}
    /\ aprobes = 1 =>
          /\ aseen \subseteq {acached}
          /\ LET k == CHOOSE k \in 0 .. MaxNodes :
                         /\ \A i \in 0 .. k - 1 : i \in aprobed
                         /\ k \notin aprobed
             IN  acached = (IF k > 0 THEN k ELSE -1)

C15_Witness ==
    /\ acalls >= 3
    /\ acached = 2
    /\ asys = {1, 2}
    /\ aseen = {2}

----------------------------------------------------------------------------
(* Library kernels called on their own: numa_node_to_cpus, the memory_stream
   reads, memory_random_chase, the vector adds *)

MaxCpu == 3

MaxElems == 9

FnInitState ==
    /\ ffn = "none"
    /\ fin = [n |-> 0]
    /\ fout = [n |-> 0]

\* tokens of a cpulist line besides the CPU numbers
Dash == [k |-> "dash", v |-> 0]

Comma == [k |-> "comma", v |-> 0]

\* the cpulist entries "A" and "A-B" over the CPUs 0..MaxCpu
CpuListItems ==
    {<<Num(a)>> : a \in 0..MaxCpu}
        \cup {<<Num(a), Dash, Num(b)>> : a \in 0..MaxCpu, b \in 1..MaxCpu}

\* the lines the kernel can put in nodeN/cpulist: one or two entries,
\* ranges ascending, separated by a comma
CpuLists ==
    LET ok == {it \in CpuListItems : Len(it) = 3 => it[1].v < it[3].v}
    IN  ok \cup {x \o <<Comma>> \o y : x \in ok, y \in ok}

\* sscanf(buffer, "%d-%d", &start, &end): the number of conversions done
sscanf_range(buf) ==
    IF Len(buf) = 0 \/ buf[1].k # "num" THEN 0
    ELSE IF Len(buf) >= 3 /\ buf[2].k = "dash" /\ buf[3].k = "num" THEN 2
    ELSE 1

\* the CPUs of the mask numa_node_to_cpus(node) returns for the line buf
numa_node_to_cpus(buf) ==
    IF sscanf_range(buf) = 2
    THEN {i \in buf[1].v .. buf[3].v : i < 64}
    ELSE IF Len(buf) > 0 /\ buf[1].k = "num"
         THEN (IF buf[1].v < 64 THEN {buf[1].v} ELSE {})
         ELSE {}

\* mask = numa_node_to_cpus(node) for a node whose cpulist reads list
FnNodeToCpus ==
    /\ ffn = "none"
    /\ \E list \in CpuLists :
          /\ ffn' = "numa_node_to_cpus"
          /\ fin' = [list |-> list]
          /\ fout' = [mask |-> numa_node_to_cpus(list)]
    /\ UNCHANGED notFn

CACHE_LINE_SIZE == 64

RECURSIVE StreamLoop(_, _, _, _)
\* for (i = from; i < count; i += step) sum += buffer[i]; -- the indices read,
\* in order, and the sum
StreamLoop(buffer, i, step, acc) ==
    IF i < Len(buffer)
    THEN StreamLoop(buffer, i + step, step,
                    [reads |-> Append(acc.reads, i), sum |-> acc.sum + buffer[i + 1]])
    ELSE acc

\* uint64_t memory_stream_read(buffer, size)
memory_stream_read(buffer) ==
    StreamLoop(buffer, 0, 1, [reads |-> <<>>, sum |-> 0])

\* uint64_t memory_stream_strided(buffer, size, stride):
\* step = (stride * CACHE_LINE_SIZE) / sizeof(uint64_t)
memory_stream_strided(buffer, stride) ==
    StreamLoop(buffer, 0, (stride * CACHE_LINE_SIZE) \div 8,
               [reads |-> <<>>, sum |-> 0])

\* buffers of up to MaxElems words
Buffers == UNION {[1..n -> {0, 1}] : n \in (MaxElems - 1) .. MaxElems}

FnStreamStrided ==
    /\ ffn = "none"
    /\ \E buffer \in Buffers, stride \in 1..2 :
          /\ ffn' = "memory_stream_strided"
          /\ fin' = [buffer |-> buffer, stride |-> stride]
          /\ fout' = memory_stream_strided(buffer, stride)
    /\ UNCHANGED notFn

MaxSlots == 4

RECURSIVE FisherYates(_, _, _)
\* for (i = count - 1; i > 0; i--) { j = rand() % (i + 1); swap(indices[i],
\* indices[j]); } -- js[i] is the j drawn at step i, without the write-back
\* of the swap
FisherYatesNoSwap(indices, i, js) ==
    IF i > 0
    THEN FisherYates([indices EXCEPT ![i + 1] = indices[js[i] + 1]], i - 1, js)
    ELSE indices

\* for (i = count - 1; i > 0; i--) { j = rand() % (i + 1); swap(indices[i],
\* indices[j]); } -- js[i] is the j drawn at step i
FisherYates(indices, i, js) ==
    IF i > 0
    THEN FisherYates([indices EXCEPT ![i + 1] = indices[js[i] + 1],
                                     ![js[i] + 1] = indices[i + 1]], i - 1, js)
    ELSE indices

\* static void shuffle_indices(indices, count): the identity, then the shuffle
shuffle_indices(count, js) ==
    FisherYates([k \in 1..count |-> k - 1], count - 1, js)

RECURSIVE LinkChain(_, _, _)
\* for (i = 0; i < count - 1; i++) buffer[indices[i]] = indices[i + 1];
\* buffer[indices[count - 1]] = indices[0];
LinkChain(buffer, indices, i) ==
    IF i < Len(indices) - 1
    THEN LinkChain([buffer EXCEPT ![indices[i + 1] + 1] = indices[i + 2]],
                   indices, i + 1)
    ELSE [buffer EXCEPT ![indices[Len(indices)] + 1] = indices[1]]

RECURSIVE Chase(_, _, _)
\* index = 0; for (i = 0; i < iterations; i++) index = buffer[index]; -- the
\* slots the walk arrives at, hop by hop
Chase(buffer, index, iterations) ==
    IF iterations = 0 THEN <<>>
    ELSE <<buffer[index + 1]>> \o Chase(buffer, buffer[index + 1], iterations - 1)

\* uint64_t memory_random_chase(buffer, size, iterations) with count slots
memory_random_chase(buffer, count, js, iterations, mallocok) ==
    IF ~mallocok
    THEN [built |-> FALSE, buffer |-> buffer, hops |-> <<>>, ret |-> 0]
    ELSE LET chain == LinkChain(buffer, shuffle_indices(count, js), 0)
             hops == Chase(chain, 0, iterations)
         IN  [built |-> TRUE, buffer |-> chain, hops |-> hops,
              ret |-> IF iterations = 0 THEN 0 ELSE hops[iterations]]

\* the outcomes of rand() % (i + 1) for i = count - 1 down to 1
ShuffleDraws(count) ==
    {js \in [1 .. count - 1 -> 0 .. count - 1] : \A i \in 1 .. count - 1 : js[i] <= i}

\* memory_random_chase on a zeroed buffer of count slots, walked for count hops
FnRandomChase ==
    /\ ffn = "none"
    /\ \E count \in 1..MaxSlots, mallocok \in BOOLEAN :
          \E js \in ShuffleDraws(count) :
             /\ ffn' = "memory_random_chase"
             /\ fin' = [count |-> count, js |-> js, mallocok |-> mallocok]
             /\ fout' = memory_random_chase([k \in 1..count |-> 0], count, js,
                                            count, mallocok)
    /\ UNCHANGED notFn

MaxLen == 9

RECURSIVE VectorBody(_, _, _, _, _, _)
\* for (i = 0; i < n - (width - 1); i += width) { load a[i..], b[i..]; add;
\* store result[i..] } with n - (width - 1) computed in size_t.  A vector
\* that reaches past n is an access outside the arrays: the walk is recorded
\* up to that vector and the call ends in a fault.
VectorBody(a, b, n, width, i, acc) ==
    IF i < Sub64(n, width - 1)
    THEN LET lanes == i .. i + width - 1 IN
         IF i + width - 1 >= n
         THEN [acc EXCEPT !.touched = acc.touched \cup lanes, !.fault = TRUE]
         ELSE VectorBody(a, b, n, width, i + width,
                  [acc EXCEPT !.touched = acc.touched \cup lanes,
                              !.i = i + width,
                              !.result = [k \in 1..n |->
                                            IF k - 1 \in lanes THEN a[k] + b[k]
                                            ELSE acc.result[k]]])
    ELSE acc

\* the vector body, then the remainder: for (; i < n; i++) result[i] = a[i] + b[i];
VectorAdd(a, b, n, width) ==
    LET body == VectorBody(a, b, n, width, 0,
                    [i |-> 0, touched |-> {}, fault |-> FALSE,
                     result |-> [k \in 1..n |-> -1]])
        tail == body.i .. n - 1
    IN  IF body.fault THEN body
        ELSE [body EXCEPT !.touched = body.touched \cup tail,
                          !.i = n,
                          !.result = [k \in 1..n |->
                                        IF k - 1 \in tail THEN a[k] + b[k]
                                        ELSE body.result[k]]]

\* uint64_t add_sse(a, b, result, n): 4 floats per vector
add_sse(a, b, n) == VectorAdd(a, b, n, 4)

\* uint64_t add_avx2(a, b, result, n): 8 floats per vector
add_avx2(a, b, n) == VectorAdd(a, b, n, 8)

\* add_sse / add_avx2 on arrays of n elements
FnVectorAdd ==
    /\ ffn = "none"
    /\ \E n \in 0..MaxLen, fn \in {"add_sse", "add_avx2"} :
          \E a \in [1..n -> {0, 1}] :
             LET b == [k \in 1..n |-> k] IN
             /\ ffn' = fn
             /\ fin' = [n |-> n, a |-> a, b |-> b]
             /\ fout' = (IF fn = "add_sse" THEN add_sse(a, b, n)
                         ELSE add_avx2(a, b, n))
    /\ UNCHANGED notFn

\* A /proc/self/stat line up to field 12 for a process whose comm has the
\* given number of words: pid (comm) state ppid pgrp session tty_nr tpgid
\* flags minflt cminflt majflt.  A comm of two words, "(a b)", is two tokens
\* between spaces.
StatLineOf(commwords, minflt, majflt) ==
    <<Num(1)>> \o [w \in 1..commwords |-> Txt]
        \o <<Txt, Num(1), Num(1), Num(1), Num(0), Num(1), Num(7),
             Num(minflt), Num(5), Num(majflt)>>

\* read_page_faults on the line of a process with such a comm
FnReadPageFaults ==
    /\ ffn = "none"
    /\ \E commwords \in 1..2, minflt \in 0..3, majflt \in 0..3 :
          /\ ffn' = "read_page_faults"
          /\ fin' = [commwords |-> commwords, minflt |-> minflt, majflt |-> majflt]
          /\ fout' = ParseStatLine(StatLineOf(commwords, minflt, majflt))
    /\ UNCHANGED notFn

PAGE_SIZE == 4096

TlbIterations == 4

\* for (i = 0; i < ITERATIONS; i++) { offset = (i * stride * PAGE_SIZE) % size;
\* sum += buffer[offset]; } -- the offsets read, in order
measure_tlb_pressure(size, stride) ==
    [k \in 1..TlbIterations |-> ((k - 1) * stride * PAGE_SIZE) % size]

\* run_experiment's matrix: sizes[] (16 KB to 16 MB) by strides[]
FnTlbPressure ==
    /\ ffn = "none"
    /\ \E kb \in {16, 64, 256, 1024, 4096, 16384}, stride \in {1, 2, 4, 8, 16} :
          /\ ffn' = "measure_tlb_pressure"
          /\ fin' = [size |-> kb * 1024, stride |-> stride]
          /\ fout' = [offsets |-> measure_tlb_pressure(kb * 1024, stride)]
    /\ UNCHANGED notFn

FnNext ==
    \/ FnTlbPressure
    \/ FnReadPageFaults
    \/ FnVectorAdd
    \/ FnRandomChase
    \/ FnNodeToCpus
    \/ FnStreamStrided

RECURSIVE CpuListCpus(_)
\* the CPUs a cpulist names, entry by entry
CpuListCpus(list) ==
    IF Len(list) = 0 THEN {}
    ELSE IF list[1].k = "comma" THEN CpuListCpus(Tail(list))
    ELSE IF Len(list) >= 3 /\ list[2].k = "dash"
         THEN (list[1].v .. list[3].v) \cup CpuListCpus(SubSeq(list, 4, Len(list)))
         ELSE {list[1].v} \cup CpuListCpus(Tail(list))

\* C16: the mask node_cpus returns has exactly the CPUs the node's cpulist
\* names, for every list of comma-separated ranges and singletons below 64.
C16_MaskIsWholeCpuList ==
    ffn = "numa_node_to_cpus" => fout.mask = CpuListCpus(fin.list)

\* C18: with stride = 1 the strided read reads the same elements in the same
\* order, and returns the same sum, as memory_stream_read.
C18_StrideOneIsSequential ==
    (ffn = "memory_stream_strided" /\ fin.stride = 1) =>
        fout = memory_stream_read(fin.buffer)

\* C17: for every slot count N >= 1 and every outcome of the shuffle, the
\* chain the kernel builds is one cycle over all N slots: from slot 0, N hops
\* arrive at N distinct slots in [0, N) and the last hop is back at slot 0.
C17_ChainIsOneCycle ==
    (ffn = "memory_random_chase" /\ fout.built) =>
        /\ Len(fout.hops) = fin.count
        /\ {fout.hops[k] : k \in 1..Len(fout.hops)} = 0 .. fin.count - 1
        /\ fout.hops[fin.count] = 0
        /\ fout.ret = 0

C17_Witness ==
    /\ ffn = "memory_random_chase"
    /\ fout.built
    /\ fin.count = MaxSlots
    /\ fout.hops[1] = 2
    /\ fout.hops[2] = 1

\* C19: for every length n >= 0 the 128-bit and the 256-bit add write
\* result[i] = a[i] + b[i] for exactly the indices below n and never touch an
\* index at or beyond n.
C19_VectorAddStaysInRange ==
    ffn \in {"add_sse", "add_avx2"} =>
        /\ ~fout.fault
        /\ fout.touched = 0 .. fin.n - 1
        /\ fout.result = [k \in 1..fin.n |-> fin.a[k] + fin.b[k]]

----------------------------------------------------------------------------
(* lock_contention.c: spinlock, mutex and atomic-add workers on one counter *)

MaxThreads == 2

MaxIters == 2

Threads == 1..MaxThreads

LockVariants == {"spinlock", "mutex", "atomic"}

LockInitState ==
    /\ lkpc = "init"
    /\ lkvariant = "spinlock"
    /\ lkT = 1
    /\ lkK = 0
    /\ lkpin = FALSE
    /\ lkcreated = 0
    /\ lkpinned = {}
    /\ lkjoined = 0
    /\ lktpc = [t \in Threads |-> "idle"]
    /\ lkti = [t \in Threads |-> 0]
    /\ lktmp = [t \in Threads |-> 0]
    /\ lkowner = 0
    /\ lkshared = 0
    /\ lkatomic = 0
    /\ lkearly = {}

\* a worker that goes straight to the increment
WorkerEntryNoLock(variant) ==
    IF variant = "atomic" THEN "add" ELSE "load"

\* the first step of one loop iteration of spinlock_worker / mutex_worker
\* (take the lock) and of atomic_worker (the atomic add)
WorkerEntry(variant) ==
    IF variant = "atomic" THEN "add" ELSE "lock"

\* where a worker goes after iteration i: the next iteration or return NULL
WorkerLoop(t, i) ==
    IF i < lkK THEN WorkerEntry(lkvariant) ELSE "done"

\* lock_workload_init(work, threads, iterations); run_lock_test(work, worker,
\* pin_threads) up to clock_gettime(&start)
LockWorkloadInit ==
    /\ lkpc = "init"
    /\ \E v \in LockVariants, T \in Threads, K \in 0..MaxIters, pin \in BOOLEAN :
          /\ lkvariant' = v
          /\ lkT' = T
          /\ lkK' = K
          /\ lkpin' = pin
    /\ lkshared' = 0
    /\ lkatomic' = 0
    /\ lkowner' = 0
    /\ lkpc' = "create"
    /\ UNCHANGED <<lkcreated, lkpinned, lkjoined, lktpc, lkti, lktmp, lkearly>>
    /\ UNCHANGED notLock

\* pthread_create(&threads[i], NULL, worker_func, work): the worker is at the
\* top of its loop from now on
LockCreate ==
    /\ lkpc = "create"
    /\ lkcreated < lkT
    /\ lkcreated' = lkcreated + 1
    /\ lktpc' = [lktpc EXCEPT ![lkcreated + 1] = WorkerLoop(lkcreated + 1, 0)]
    /\ lkpc' = (IF lkpin THEN "pin" ELSE "create")
    /\ UNCHANGED <<lkvariant, lkT, lkK, lkpin, lkpinned, lkjoined, lkti, lktmp,
                   lkowner, lkshared, lkatomic, lkearly>>
    /\ UNCHANGED notLock

\* if (pin_threads) pthread_setaffinity_np(threads[i], ...)
LockPin ==
    /\ lkpc = "pin"
    /\ lkpinned' = lkpinned \cup {lkcreated}
    /\ lkpc' = "create"
    /\ UNCHANGED <<lkvariant, lkT, lkK, lkpin, lkcreated, lkjoined, lktpc, lkti,
                   lktmp, lkowner, lkshared, lkatomic, lkearly>>
    /\ UNCHANGED notLock

\* one step of worker t
LockWorkerStep(t) ==
    /\ lktpc[t] \in {"lock", "load", "store", "unlock", "add"}
    /\ lkearly' = (IF lkpin /\ t \notin lkpinned THEN lkearly \cup {t} ELSE lkearly)
    /\ CASE lktpc[t] = "lock" ->
               \* pthread_spin_lock / pthread_mutex_lock returns once free
               /\ lkowner = 0
               /\ lkowner' = t
               /\ lktpc' = [lktpc EXCEPT ![t] = "load"]
               /\ UNCHANGED <<lkti, lktmp, lkshared, lkatomic>>
         [] lktpc[t] = "load" ->
               \* work->shared_counter++ : the read
               /\ lktmp' = [lktmp EXCEPT ![t] = lkshared]
               /\ lktpc' = [lktpc EXCEPT ![t] = "store"]
               /\ UNCHANGED <<lkti, lkowner, lkshared, lkatomic>>
         [] lktpc[t] = "store" ->
               \* work->shared_counter++ : the write
               /\ lkshared' = lktmp[t] + 1
               /\ lktpc' = [lktpc EXCEPT ![t] = "unlock"]
               /\ UNCHANGED <<lkti, lktmp, lkowner, lkatomic>>
         [] lktpc[t] = "unlock" ->
               \* pthread_spin_unlock / pthread_mutex_unlock; i++
               /\ lkowner' = 0
               /\ lkti' = [lkti EXCEPT ![t] = lkti[t] + 1]
               /\ lktpc' = [lktpc EXCEPT ![t] = WorkerLoop(t, lkti[t] + 1)]
               /\ UNCHANGED <<lktmp, lkshared, lkatomic>>
         [] lktpc[t] = "add" ->
               \* __atomic_add_fetch(&work->atomic_counter, 1, SEQ_CST); i++
               /\ lkatomic' = lkatomic + 1
               /\ lkti' = [lkti EXCEPT ![t] = lkti[t] + 1]
               /\ lktpc' = [lktpc EXCEPT ![t] = WorkerLoop(t, lkti[t] + 1)]
               /\ UNCHANGED <<lktmp, lkowner, lkshared>>
    /\ UNCHANGED <<lkpc, lkvariant, lkT, lkK, lkpin, lkcreated, lkpinned, lkjoined>>
    /\ UNCHANGED notLock

LockWorker == \E t \in Threads : LockWorkerStep(t)

\* pthread_join(threads[i], NULL) returns when worker i has returned
LockJoin ==
    /\ lkpc = "create"
    /\ lkcreated = lkT
    /\ lkjoined < lkT
    /\ lktpc[lkjoined + 1] = "done"
    /\ lkjoined' = lkjoined + 1
    /\ lktpc' = [lktpc EXCEPT ![lkjoined + 1] = "joined"]
    /\ UNCHANGED <<lkpc, lkvariant, lkT, lkK, lkpin, lkcreated, lkpinned, lkti,
                   lktmp, lkowner, lkshared, lkatomic, lkearly>>
    /\ UNCHANGED notLock

\* clock_gettime(&end); free(threads); return elapsed_ns
LockReturn ==
    /\ lkpc = "create"
    /\ lkjoined = lkT
    /\ lkpc' = "returned"
    /\ UNCHANGED <<lkvariant, lkT, lkK, lkpin, lkcreated, lkpinned, lkjoined,
                   lktpc, lkti, lktmp, lkowner, lkshared, lkatomic, lkearly>>
    /\ UNCHANGED notLock

LockNext ==
    \/ LockWorkloadInit
    \/ LockCreate
    \/ LockPin
    \/ LockWorker
    \/ LockJoin
    \/ LockReturn

\* C20: when run_lock_test returns, the counter of the variant under test is
\* T x K for every T, K and interleaving, and in the spinlock and mutex
\* variants at most one worker is inside the locked increment at any time.
C20_NoLostIncrement ==
    /\ lkpc = "returned" =>
          (IF lkvariant = "atomic" THEN lkatomic ELSE lkshared) = lkT * lkK
    /\ Cardinality({t \in Threads : lktpc[t] \in {"load", "store", "unlock"}}) <= 1

C20_Witness ==
    /\ lkpc = "returned"
    /\ lkvariant = "mutex"
    /\ lkT = MaxThreads
    /\ lkK = MaxIters
    /\ lkshared = MaxThreads * MaxIters

\* C23: when pinning is requested, each worker's affinity is set before that
\* worker executes any step of its loop, and before the run's start
\* timestamp is taken (the timestamp is taken on the way to "create").
C23_PinnedBeforeRunning ==
    lkpin =>
        /\ lkearly = {}
        /\ lkpc # "init" => lkpinned = 1..lkT

----------------------------------------------------------------------------
(* rwlock_scaling.c: readers and writers on one pthread_rwlock *)

RwIterations == 4

write_percentages == {0, 10, 50, 100}

\* values of rand_r(&seed) % 100 on either side of every write percentage
RwDraws == {0, 9, 10, 49, 50, 99}

\* if (r < params->write_percentage) wrlock ... else rdlock
lock_for(r, pct) == IF r < pct THEN "wr" ELSE "rd"

\* a worker whose write operations skip the lock
rw_entry_nolock(kind) == IF kind = "wr" THEN "load" ELSE "lock"

\* the first step of an operation once its kind is known: take the lock
rw_entry(kind) == "lock"

\* a join loop that stops one thread short
join_bound_short(num_threads) == num_threads - 1

\* for (i = 0; i < num_threads; i++) pthread_join(threads[i], NULL);
join_bound(num_threads) == num_threads

RwInitState ==
    /\ rwpc = "idle"
    /\ rwrun = 0
    /\ rwT = 1
    /\ rwpct = 0
    /\ rwcreated = 0
    /\ rwjoined = 0
    /\ rwtpc = [t \in Threads |-> "idle"]
    /\ rwti = [t \in Threads |-> 0]
    /\ rwkind = [t \in Threads |-> "rd"]
    /\ rwtmp = [t \in Threads |-> 0]
    /\ rwwriter = 0
    /\ rwreaders = {}
    /\ rwshared = 0
    /\ rwwrites = 0
    /\ rwlive = FALSE

\* run_rwlock_test(csv, num_threads, write_pct, &run): pthread_rwlock_init,
\* shared_data = 0, start_ts
RwTestBegin ==
    /\ rwpc = "idle"
    /\ rwrun < MaxRuns
    /\ \E T \in Threads, pct \in write_percentages :
          /\ rwT' = T
          /\ rwpct' = pct
    /\ rwlive' = TRUE
    /\ rwshared' = 0
    /\ rwwrites' = 0
    /\ rwwriter' = 0
    /\ rwreaders' = {}
    /\ rwcreated' = 0
    /\ rwjoined' = 0
    /\ rwtpc' = [t \in Threads |-> "idle"]
    /\ rwti' = [t \in Threads |-> 0]
    /\ rwpc' = "create"
    /\ UNCHANGED <<rwrun, rwkind, rwtmp>>
    /\ UNCHANGED notRw

\* pthread_create(&threads[i], NULL, rwlock_worker, &args[i])
RwCreate ==
    /\ rwpc = "create"
    /\ rwcreated < rwT
    /\ rwcreated' = rwcreated + 1
    /\ rwtpc' = [rwtpc EXCEPT ![rwcreated + 1] =
                    IF RwIterations \div rwT > 0 THEN "top" ELSE "done"]
    /\ UNCHANGED <<rwpc, rwrun, rwT, rwpct, rwjoined, rwti, rwkind, rwtmp,
                   rwwriter, rwreaders, rwshared, rwwrites, rwlive>>
    /\ UNCHANGED notRw

\* one step of worker t
RwWorkerStep(t) ==
    /\ rwtpc[t] \in {"top", "lock", "load", "store", "read", "unlock"}
    /\ CASE rwtpc[t] = "top" ->
               \* r = rand_r(&seed) % 100
               /\ \E r \in RwDraws :
                     /\ rwkind' = [rwkind EXCEPT ![t] = lock_for(r, rwpct)]
                     /\ rwtpc' = [rwtpc EXCEPT ![t] = rw_entry(lock_for(r, rwpct))]
               /\ UNCHANGED <<rwti, rwtmp, rwwriter, rwreaders, rwshared, rwwrites>>
         [] rwtpc[t] = "lock" /\ rwkind[t] = "wr" ->
               \* pthread_rwlock_wrlock returns when nobody holds the lock
               /\ rwwriter = 0 /\ rwreaders = {}
               /\ rwwriter' = t
               /\ rwtpc' = [rwtpc EXCEPT ![t] = "load"]
               /\ UNCHANGED <<rwti, rwkind, rwtmp, rwreaders, rwshared, rwwrites>>
         [] rwtpc[t] = "lock" /\ rwkind[t] = "rd" ->
               \* pthread_rwlock_rdlock returns when no writer holds the lock
               /\ rwwriter = 0
               /\ rwreaders' = rwreaders \cup {t}
               /\ rwtpc' = [rwtpc EXCEPT ![t] = "read"]
               /\ UNCHANGED <<rwti, rwkind, rwtmp, rwwriter, rwshared, rwwrites>>
         [] rwtpc[t] = "load" ->
               \* (*params->shared_data)++ : the read
               /\ rwtmp' = [rwtmp EXCEPT ![t] = rwshared]
               /\ rwtpc' = [rwtpc EXCEPT ![t] = "store"]
               /\ UNCHANGED <<rwti, rwkind, rwwriter, rwreaders, rwshared, rwwrites>>
         [] rwtpc[t] = "store" ->
               \* (*params->shared_data)++ : the write
               /\ rwshared' = rwtmp[t] + 1
               /\ rwwrites' = rwwrites + 1
               /\ rwtpc' = [rwtpc EXCEPT ![t] = "unlock"]
               /\ UNCHANGED <<rwti, rwkind, rwtmp, rwwriter, rwreaders>>
         [] rwtpc[t] = "read" ->
               \* volatile int val = *params->shared_data
               /\ rwtmp' = [rwtmp EXCEPT ![t] = rwshared]
               /\ rwtpc' = [rwtpc EXCEPT ![t] = "unlock"]
               /\ UNCHANGED <<rwti, rwkind, rwwriter, rwreaders, rwshared, rwwrites>>
         [] rwtpc[t] = "unlock" ->
               \* pthread_rwlock_unlock; operations++; i++
               /\ rwwriter' = (IF rwwriter = t THEN 0 ELSE rwwriter)
               /\ rwreaders' = rwreaders \ {t}
               /\ rwti' = [rwti EXCEPT ![t] = rwti[t] + 1]
               /\ rwtpc' = [rwtpc EXCEPT ![t] =
                               IF rwti[t] + 1 < RwIterations \div rwT
                               THEN "top" ELSE "done"]
               /\ UNCHANGED <<rwkind, rwtmp, rwshared, rwwrites>>
    /\ UNCHANGED <<rwpc, rwrun, rwT, rwpct, rwcreated, rwjoined, rwlive>>
    /\ UNCHANGED notRw

RwWorker == \E t \in Threads : RwWorkerStep(t)

\* pthread_join(threads[i], NULL) returns when worker i has returned
RwJoin ==
    /\ rwpc = "create"
    /\ rwcreated = rwT
    /\ rwjoined < join_bound(rwT)
    /\ rwtpc[rwjoined + 1] = "done"
    /\ rwjoined' = rwjoined + 1
    /\ rwtpc' = [rwtpc EXCEPT ![rwjoined + 1] = "joined"]
    /\ UNCHANGED <<rwpc, rwrun, rwT, rwpct, rwcreated, rwti, rwkind, rwtmp,
                   rwwriter, rwreaders, rwshared, rwwrites, rwlive>>
    /\ UNCHANGED notRw

\* the statistics over args[i], then the record of the test; (*run_number)++
RwRecord ==
    /\ rwpc = "create"
    /\ rwcreated = rwT
    /\ rwjoined >= join_bound(rwT)
    /\ rwrun' = rwrun + 1
    /\ rwpc' = "recorded"
    /\ UNCHANGED <<rwT, rwpct, rwcreated, rwjoined, rwtpc, rwti, rwkind, rwtmp,
                   rwwriter, rwreaders, rwshared, rwwrites, rwlive>>
    /\ UNCHANGED notRw

\* pthread_rwlock_destroy(&rwlock); the test returns to run_experiment
RwDestroy ==
    /\ rwpc = "recorded"
    /\ rwlive' = FALSE
    /\ rwpc' = "idle"
    /\ UNCHANGED <<rwrun, rwT, rwpct, rwcreated, rwjoined, rwtpc, rwti, rwkind,
                   rwtmp, rwwriter, rwreaders, rwshared, rwwrites>>
    /\ UNCHANGED notRw

RwNext ==
    \/ RwTestBegin
    \/ RwCreate
    \/ RwWorker
    \/ RwJoin
    \/ RwRecord
    \/ RwDestroy

\* C21: no worker is in a write operation while another worker is in a read
\* or a write operation, the write lock is never held together with a read
\* lock, a worker between operations holds no lock, and once all workers
\* are joined shared_data equals the number of write operations performed.
C21_RwlockSemantics ==
    /\ \A t \in Threads :
          (rwtpc[t] \in {"load", "store"}) =>
              \A u \in Threads \ {t} : rwtpc[u] \notin {"load", "store", "read"}
    /\ rwwriter # 0 => rwreaders = {}
    /\ \A t \in Threads :
          (rwtpc[t] \in {"idle", "top", "lock", "done", "joined"}) =>
              (t \notin rwreaders /\ rwwriter # t)
    /\ rwpc = "recorded" => rwshared = rwwrites

C21_Witness ==
    /\ rwpc = "recorded"
    /\ rwT = 2
    /\ rwpct = 50
    /\ rwshared = 2
    /\ \E t \in Threads : rwkind[t] = "rd"

C26_StatFieldsTenAndTwelve ==
    ffn = "read_page_faults" =>
        (fout.minor = fin.minflt /\ fout.major = fin.majflt)

\* C28: for every buffer size and stride of the matrix every offset lies in
\* the buffer, each access is on the page `stride` pages after the previous
\* one (wrapping at the end of the buffer) and on a different page, so more
\* than one page is touched.
C28_StrideTouchesManyPages ==
    ffn = "measure_tlb_pressure" =>
        LET pages == [k \in 1..Len(fout.offsets) |-> fout.offsets[k] \div PAGE_SIZE]
            npages == fin.size \div PAGE_SIZE
        IN  /\ \A k \in 1..Len(pages) : fout.offsets[k] >= 0 /\ fout.offsets[k] < fin.size
            /\ \A k \in 1..Len(pages) - 1 :
                  /\ pages[k + 1] = (pages[k] + fin.stride) % npages
                  /\ pages[k + 1] # pages[k]
            /\ Cardinality({pages[k] : k \in 1..Len(pages)}) > 1

----------------------------------------------------------------------------
(* mixed_workload.c: the mixed CPU+memory workload and its phased and     *)
(* bursty variants                                                         *)

MaxWorkingSet == 2

MaxPhases == 3

MixedInitState ==
    /\ xpc = "new"
    /\ xw = [buffer |-> 0, buffer_size |-> 0, indices |-> 0,
             working_set_size |-> 0, compute_ratio |-> 0]
    /\ xalloc = 0
    /\ xentry = [buffer |-> 0, buffer_size |-> 0, indices |-> 0,
                 working_set_size |-> 0, compute_ratio |-> 0]
    /\ xfn = "none"
    /\ xiter = 0
    /\ xphases = 0
    /\ xk = 0
    /\ xoob = FALSE

\* mixed_workload_init: the fields are stored first, then the two mallocs;
\* -1 when either fails.  The index array gets working_set elements; what
\* malloc(0) returns is up to the allocator (idxok covers both).  The
\* compute ratios are the ones realistic_patterns.c passes.
MixedInit ==
    /\ xpc = "new"
    /\ \E working_set \in 0..MaxWorkingSet, compute_ratio \in {1, 3, 10},
          bufok \in BOOLEAN, idxok \in BOOLEAN :
          /\ xw' = [buffer |-> IF bufok THEN 1 ELSE 0,
                    buffer_size |-> 64,
                    indices |-> IF bufok /\ idxok THEN 2 ELSE 0,
                    working_set_size |-> working_set,
                    compute_ratio |-> compute_ratio]
          /\ xalloc' = IF bufok /\ idxok THEN working_set ELSE 0
          /\ xpc' = IF bufok /\ idxok THEN "ready" ELSE "failed"
    /\ UNCHANGED <<xentry, xfn, xiter, xphases, xk, xoob>>
    /\ UNCHANGED notMixed

\* mixed_workload_phased entered: initial_working_set = w->working_set_size
MixedPhasedCall ==
    /\ xpc = "ready"
    /\ \E iterations \in 0..MaxIters, phases \in 0..MaxPhases :
          /\ xiter' = iterations
          /\ xphases' = phases
    /\ xentry' = xw
    /\ xfn' = "phased"
    /\ xk' = 0
    /\ xpc' = "phased"
    /\ UNCHANGED <<xw, xalloc, xoob>>
    /\ UNCHANGED notMixed

\* one phase: the working set is set to initial * (phase + 1) / phases, at
\* least 1, and mixed_workload_run(w, iterations / phases) reads
\* indices[iter % working_set_size] for iter < iterations / phases
MixedPhase ==
    /\ xpc = "phased"
    /\ xk < xphases
    /\ LET grown == (xentry.working_set_size * (xk + 1)) \div xphases
           ws == IF grown < 1 THEN 1 ELSE grown
           n == xiter \div xphases
           read == IF n < ws THEN n ELSE ws
       IN  /\ xw' = [xw EXCEPT !.working_set_size = ws]
           /\ xoob' = (xoob \/ read > xalloc)
    /\ xk' = xk + 1
    /\ UNCHANGED <<xpc, xalloc, xentry, xfn, xiter, xphases>>
    /\ UNCHANGED notMixed

\* after the last phase: w->working_set_size = initial_working_set; return
MixedPhasedReturn ==
    /\ xpc = "phased"
    /\ xk >= xphases
    /\ xw' = [xw EXCEPT !.working_set_size = xentry.working_set_size]
    /\ xpc' = "ready"
    /\ UNCHANGED <<xalloc, xentry, xfn, xiter, xphases, xk, xoob>>
    /\ UNCHANGED notMixed

\* mixed_workload_bursty entered: original_ratio = w->compute_ratio
MixedBurstyCall ==
    /\ xpc = "ready"
    /\ xiter' \in {0, 1, 1000 + MaxIters}
    /\ xentry' = xw
    /\ xfn' = "bursty"
    /\ xk' = 0
    /\ xpc' = "bursty"
    /\ UNCHANGED <<xw, xalloc, xphases, xoob>>
    /\ UNCHANGED notMixed

\* one iteration i: the ratio of the current 1000-iteration window is
\* stored, then indices[i % working_set_size] is read (a zero working set
\* traps on the division)
MixedBurstyStep ==
    /\ xpc = "bursty"
    /\ xk < xiter
    /\ LET quarter == xentry.compute_ratio \div 4
           ratio == IF (xk \div 1000) % 2 = 0
                    THEN xentry.compute_ratio * 4
                    ELSE IF quarter < 1 THEN 1 ELSE quarter
       IN  xw' = [xw EXCEPT !.compute_ratio = ratio]
    /\ IF xw.working_set_size = 0
       THEN xpc' = "crashed" /\ xk' = xk /\ xoob' = xoob
       ELSE /\ xpc' = xpc
            /\ xk' = xk + 1
            /\ xoob' = (xoob \/ xk % xw.working_set_size >= xalloc)
    /\ UNCHANGED <<xalloc, xentry, xfn, xiter, xphases>>
    /\ UNCHANGED notMixed

\* after the loop: w->compute_ratio = original_ratio; return
MixedBurstyReturn ==
    /\ xpc = "bursty"
    /\ xk >= xiter
    /\ xw' = [xw EXCEPT !.compute_ratio = xentry.compute_ratio]
    /\ xpc' = "ready"
    /\ UNCHANGED <<xalloc, xentry, xfn, xiter, xphases, xk, xoob>>
    /\ UNCHANGED notMixed

MixedNext ==
    \/ MixedInit
    \/ MixedPhasedCall
    \/ MixedPhase
    \/ MixedPhasedReturn
    \/ MixedBurstyCall
    \/ MixedBurstyStep
    \/ MixedBurstyReturn

\* C30: mixed_workload_phased returns with working_set_size, and
\* mixed_workload_bursty with compute_ratio, as they were at entry; neither
\* ever changes buffer_size, buffer or indices; and while a phased run is in
\* progress the working set is never larger than the number of elements the
\* index array was allocated for.
C30_VariantsRestoreAndStayInBounds ==
    /\ (xpc = "ready" /\ xfn = "phased") =>
          xw.working_set_size = xentry.working_set_size
    /\ (xpc = "ready" /\ xfn = "bursty") =>
          xw.compute_ratio = xentry.compute_ratio
    /\ xfn # "none" =>
          /\ xw.buffer_size = xentry.buffer_size
          /\ xw.buffer = xentry.buffer
          /\ xw.indices = xentry.indices
    /\ xpc = "phased" => xw.working_set_size <= xalloc

----------------------------------------------------------------------------
(* Specifications: one per component, the others idle *)

Init ==
    /\ MetricsInitState
    /\ PinnedInitState
    /\ CacheInitState
    /\ NumaInitState
    /\ RealInitState
    /\ NiceInitState
    /\ ProcInitState
    /\ ApiInitState
    /\ FnInitState
    /\ LockInitState
    /\ RwInitState
    /\ MixedInitState

SpecMetrics == Init /\ [][MetricsNext]_vars

SpecPinned == Init /\ [][PinnedNext]_vars

SpecCache == Init /\ [][CacheNext]_vars

SpecNuma == Init /\ [][NumaNext]_vars

SpecReal == Init /\ [][RealNext]_vars

SpecNice == Init /\ [][NiceNext]_vars

SpecProc == Init /\ [][ProcNext]_vars

SpecApi == Init /\ [][ApiNext]_vars

SpecFn == Init /\ [][FnNext]_vars

SpecLock == Init /\ [][LockNext]_vars

SpecRw == Init /\ [][RwNext]_vars

SpecMixed == Init /\ [][MixedNext]_vars

====
